---- MODULE Spec2Model ----
(***************************************************************************)
(* Model of the per-request pipeline of the skipper proxy                  *)
(* (src/proxy/proxy.go): ServeHTTP, do, the filter runner, the circuit     *)
(* breaker gate, makeBackendRequest with its retry, errorResponse and      *)
(* serveResponse.                                                          *)
(*                                                                         *)
(* One inbound request is followed from ServeHTTP to its return.  The      *)
(* recursion of do over loopback routes is the sequence `stack`: one       *)
(* frame per invocation of do, each holding its own context (a clone is a  *)
(* value copy) and the locals of the invocation.  The state bag is a Go    *)
(* map, so a cloned context refers to the same bag: it is the single       *)
(* variable `stateBag`.                                                    *)
(*                                                                         *)
(* Spec follows one request through the whole pipeline.  SpecErrorResponse *)
(* applies errorResponse to every error and default status, as a function. *)
(* SpecShouldLog, SpecHeaders and SpecDynamicBackend apply shouldLog, the   *)
(* header copy of mapRequest and the URL of a dynamic route to their        *)
(* inputs.  SpecTryCatch and SpecInflight interleave the goroutines of      *)
(* several requests in tryCatch and in makeBackendRequest.                  *)
(***************************************************************************)
EXTENDS Integers, Sequences, FiniteSets, TLC

VARIABLES
    params,      \* Params handed to WithParams
    request,     \* the inbound request: [body]
    phase,       \* position of ServeHTTP: "idle", "do", "respond", "done"
    stack,       \* frames of the running invocations of do, root first
    stateBag,    \* ctx.stateBag, shared by a context and its clones
    bodyDrained, \* the inbound request body was read to its end
    written,     \* responses written to the client, in order
    lifoCalls,   \* cleanup callbacks invoked, in order
    drains,      \* one entry per run of do's deferred drain
    breakerLog,  \* arguments of the breaker's done callback, in order
    breakerAsk,  \* number of calls of Allow
    roundTrips,  \* number of calls of RoundTrip
    attemptLog,  \* outcomes of makeBackendRequest, in order
    hooksLeft,   \* filters the routing table may still hand out
    hops,        \* loopback hops made (clones passed to do)
    limiterChecks, \* number of calls of p.limiters.Check
    lookups,     \* number of calls of lookupRoute
    limiterAsk,  \* number of calls of the backend rate limiter
    raised,      \* the first error an invocation of do returned
    statusTag,   \* HTTPStatusCodeTag set on the initial span by errorResponse
    scopes,      \* number of backend-timeout scopes derived
    cancelCalls, \* scopes whose cancel was invoked, in order
    spans,       \* number of proxy spans created
    finished,    \* proxy spans finished, in order
    closed,      \* response bodies closed by ServeHTTP, in order
    caughtPanic, \* the package-level flag of tryCatch
    errorLog,    \* entries logged for filter panics, in order
    panicCount,  \* number of filter hooks that panicked
    clientGone,  \* when the inbound context was cancelled, seen from serveResponse
    storedStatus, \* ctx.response.StatusCode when serveResponse has returned
    measureServe, \* status codes handed to MeasureServe, in order
    errorsBackend, \* number of calls of IncErrorsBackend
    statusCode,  \* argument of shouldLog: the status the logging writer saw
    accessLogFilter, \* argument of shouldLog: [Enable, Prefixes]
    logged,      \* results of shouldLog, in order
    inbound,     \* r.Header of the request mapRequest maps: raw key -> values
    ranged,      \* keys the range over the inbound header has yet to yield
    outbound,    \* rr.Header of the outbound request: key -> values
    removeHopHeaders, \* argument of mapRequest
    urlUser,     \* the URL of the request holds user information
    mapRequestDone, \* mapRequest has returned
    requestURL,  \* r.URL of the request of a dynamic route: [Scheme, Host]
    requestHost, \* r.Host
    requestTLS,  \* r.TLS is not nil
    dynamicBag,  \* the dynamic-backend keys of the state bag
    urlResolved, \* the switch of mapRequest over the backend type is done
    tasks,       \* goroutines in tryCatch's deferred function
    workers,     \* goroutines in makeBackendRequest
    inflightRequests, \* the inflight counter of each endpoint
    configuredPeriod, \* Params.CloseIdleConnsPeriod as handed to WithParams
    closeIdleConnsPeriod, \* p.CloseIdleConnsPeriod after line 610
    evictor,     \* position of the goroutine of lines 648-657
    sinceArmed,  \* time since the goroutine armed its timer
    quitClosed,  \* the quit channel is closed
    evictions    \* number of calls of CloseIdleConnections

vars == <<params, request, phase, stack, stateBag, bodyDrained, written,
          lifoCalls, drains, breakerLog, breakerAsk, roundTrips, attemptLog,
          hooksLeft, hops, limiterChecks, lookups, limiterAsk, raised,
          statusTag, scopes, cancelCalls, spans, finished, closed, caughtPanic,
          errorLog, panicCount, clientGone, storedStatus, measureServe,
          errorsBackend,
          statusCode, accessLogFilter, logged, inbound, ranged, outbound,
          removeHopHeaders, urlUser, mapRequestDone, requestURL, requestHost,
          requestTLS, dynamicBag, urlResolved, tasks, workers, inflightRequests,
          configuredPeriod, closeIdleConnsPeriod, evictor, sinceArmed,
          quitClosed, evictions>>

\* Groups of variables, as the parts of the program that own them.
gates == <<limiterChecks, lookups, limiterAsk>>
resources == <<scopes, cancelCalls, spans, finished, closed>>
panics == <<caughtPanic, errorLog, panicCount>>
serving == <<clientGone, storedStatus, measureServe, errorsBackend>>
core == <<params, request, phase, stack, stateBag, bodyDrained, written,
          lifoCalls, drains, breakerLog, breakerAsk, roundTrips, attemptLog,
          hooksLeft, hops, raised, statusTag>>
accesslog == <<statusCode, accessLogFilter, logged>>
headers == <<inbound, ranged, outbound, removeHopHeaders, urlUser, mapRequestDone>>
dynamic == <<requestURL, requestHost, requestTLS, dynamicBag, urlResolved>>
concurrent == <<tasks, workers, inflightRequests>>
eviction == <<configuredPeriod, closeIdleConnsPeriod, evictor, sinceArmed,
              quitClosed, evictions>>

\* The variables of the functions and tasks that are followed on their own,
\* outside the pipeline of one request.
aside == <<accesslog, headers, dynamic, concurrent, eviction>>

----------------------------------------------------------------------------
\* Bounds of the model.

MaxFilters == 2      \* filters of one route
MaxHooks == 2        \* filters of all routes one request passes
MaxHooksLoop == 1    \* the same, under a configured loop budget
MaxHooksDeep == 0    \* the same, under the default loop budget
MaxLIFO == 2         \* cleanup callbacks one request pushes
MaxConfiguredLoops == 1   \* largest positive Params.MaxLoopbacks tried

----------------------------------------------------------------------------
\* Constants of the program.

DefaultMaxLoopbacks == 9
StatusNotFound == 404
StatusContinue == 100
StatusNetworkAuthenticationRequired == 511
StatusInternalServerError == 500
StatusBadGateway == 502
StatusServiceUnavailable == 503
StatusGatewayTimeout == 504
StatusTooManyRequests == 429
StatusClientClosed == 499
DialFailedCode == 0 - 1
DefaultResponseStatus == 404
DebugDocumentStatus == 200

----------------------------------------------------------------------------
\* Errors.  A Go error is a record; type tells *proxyError from the string
\* error types, id tells the package-level values apart (errors are
\* compared by identity in errorResponse), n is the backend attempt that
\* allocated the error (0 for the others).

NilError == [type |-> "nil", id |-> "nil", code |-> 0, handled |-> FALSE,
             dialingFailed |-> FALSE, additionalHeader |-> {}, n |-> 0]

proxyError(id, code, handled, dialingFailed, hdr) ==
    [type |-> "proxyError", id |-> id, code |-> code, handled |-> handled,
     dialingFailed |-> dialingFailed, additionalHeader |-> hdr, n |-> 0]

errMaxLoopbacksReached ==
    [type |-> "maxLoopbackError", id |-> "max loopbacks reached", code |-> 0,
     handled |-> FALSE, dialingFailed |-> FALSE, additionalHeader |-> {},
     n |-> 0]

errRouteLookupFailed == proxyError("errRouteLookupFailed", 0, FALSE, FALSE, {})

errCircuitBreakerOpen_code500 ==
    proxyError("errCircuitBreakerOpen", StatusInternalServerError, FALSE, FALSE,
               {"X-Circuit-Open"})

errCircuitBreakerOpen ==
    proxyError("errCircuitBreakerOpen", StatusServiceUnavailable, FALSE, FALSE,
               {"X-Circuit-Open"})

newRatelimitError ==
    proxyError("ratelimited", StatusTooManyRequests, FALSE, FALSE,
               {"Retry-After", "X-Rate-Limit", "X-Rate-Limit-Duration"})

errHandled == proxyError("handled", 0, TRUE, FALSE, {})

----------------------------------------------------------------------------
\* Responses.  ctx.response is a pointer: NilResponse is the nil pointer.
\* from names the place that allocated the response; header is the set of
\* its header fields as <<name, value>>; body is "nil" for a nil Body,
\* "empty" for a body without data and "data" otherwise.

NilResponse == [status |-> 0 - 1, from |-> "nil", header |-> {}, body |-> "nil"]
Response(status, from, header, body) ==
    [status |-> status, from |-> from, header |-> header, body |-> body]

----------------------------------------------------------------------------
\* WithParams.

MaxLoopsOf_negativeKept(p) ==
    IF p.MaxLoopbacks = 0 THEN DefaultMaxLoopbacks ELSE p.MaxLoopbacks

MaxLoopsOf(p) ==
    IF p.MaxLoopbacks = 0 THEN DefaultMaxLoopbacks
    ELSE IF p.MaxLoopbacks < 0 THEN 0
    ELSE p.MaxLoopbacks

DefaultHTTPStatusOf(p) ==
    IF p.DefaultHTTPStatus >= StatusContinue
       /\ p.DefaultHTTPStatus <= StatusNetworkAuthenticationRequired
    THEN p.DefaultHTTPStatus
    ELSE StatusNotFound

maxLoops == MaxLoopsOf(params)
Debug == params.Debug

\* The configurations tried.  A debug proxy never reaches the breaker or
\* makeBackendRequest, so CircuitBreakers and ExperimentalUpgrade are only
\* varied without Debug.
ParamsSet ==
    {p \in [MaxLoopbacks : {0 - 1, 0} \cup (1 .. MaxConfiguredLoops),
            Debug : BOOLEAN,
            CircuitBreakers : BOOLEAN,
            ExperimentalUpgrade : BOOLEAN,
            DefaultHTTPStatus : {0}] :
        p.Debug => (~p.CircuitBreakers /\ ~p.ExperimentalUpgrade)}

\* r.Body of the inbound request: nil, http.NoBody, or a body with data.
Bodies == {"nil", "NoBody", "data"}

\* A proxy with everything the flags switch on: a debug proxy, or one with
\* breakers and upgrades.
FullParams(p) == p.Debug \/ (p.CircuitBreakers /\ p.ExperimentalUpgrade)

\* The inputs of a run: the proxy's Params, the request, and the number of
\* filters on the routes the request will pass.
\*  - without loop budget (MaxLoopbacks < 0): every configuration and every
\*    body with MaxHooksLoop filters, and the full configurations with a
\*    body of data and MaxHooks filters;
\*  - with a configured loop budget: the full configurations, a request
\*    without body and MaxHooksLoop filters;
\*  - with the default loop budget (chains of up to ten routes): the same
\*    with MaxHooksDeep filters.
Inputs ==
    {[params |-> p, body |-> b, hooks |-> MaxHooksLoop] :
        p \in {q \in ParamsSet : q.MaxLoopbacks < 0}, b \in Bodies}
    \cup
    {[params |-> p, body |-> "data", hooks |-> MaxHooks] :
        p \in {q \in ParamsSet : q.MaxLoopbacks < 0 /\ FullParams(q)}}
    \cup
    {[params |-> p, body |-> "NoBody", hooks |-> MaxHooksLoop] :
        p \in {q \in ParamsSet : q.MaxLoopbacks > 0 /\ FullParams(q)}}
    \cup
    {[params |-> p, body |-> "NoBody", hooks |-> MaxHooksDeep] :
        p \in {q \in ParamsSet : q.MaxLoopbacks = 0 /\ FullParams(q)}}

----------------------------------------------------------------------------
\* Contexts and frames.

BackendTypes == {"network", "dynamic", "lb", "shunt", "loopback"}

NilRoute == [BackendType |-> "nil", nf |-> 0]

\* newContext: the root context of a request.
newContext ==
    [executionCounter |-> 0, route |-> NilRoute, servedWithResponse |-> FALSE,
     deprecatedServed |-> FALSE, response |-> NilResponse,
     successfulUpgrade |-> FALSE, cancelBackendContext |-> 0,
     proxySpan |-> 0, debugFilterPanics |-> 0]

\* ctx.clone(): a value copy of the context.
clone(ctx) == ctx

wasExecuted(ctx) == ctx.executionCounter # 0
shunted(ctx) == ctx.servedWithResponse
deprecatedShunted(ctx) == ctx.deprecatedServed

ensureDefaultResponse(ctx) ==
    IF ctx.response = NilResponse
    THEN [ctx EXCEPT !.response = Response(DefaultResponseStatus, "default", {}, "empty")]
    ELSE ctx

setResponse(ctx, rsp) == [ctx EXCEPT !.response = rsp]

\* A frame is one invocation of do: its context and its locals.
newFrame(ctx) ==
    [ctx |-> ctx,
     pc |-> "enter",
     deferred |-> FALSE,          \* the drain of line 1049 is registered
     processed |-> 0,             \* len(filters) in applyFiltersToRequest
     stopped |-> FALSE,           \* the request loop took its break
     ri |-> 0,                    \* loop index i of applyFiltersToResponse
     hooks |-> << >>,             \* hooks invoked by this invocation
     done |-> FALSE,              \* checkBreaker returned a done callback
     attempts |-> 0,              \* calls of makeBackendRequest
     perr |-> NilError,           \* error of the first attempt
     err |-> NilError]            \* the value do returns

top == stack[Len(stack)]
SetTop(f) == [stack EXCEPT ![Len(stack)] = f]

Running == phase = "do" /\ Len(stack) > 0

Reverse(s) == [i \in 1 .. Len(s) |-> s[Len(s) + 1 - i]]

Count(x, s) == Cardinality({i \in 1 .. Len(s) : s[i] = x})

----------------------------------------------------------------------------
\* The parts that are followed on their own are at rest while one request
\* is followed through the pipeline, and the other way round.
AccessLogIdle ==
    statusCode = 0 /\ accessLogFilter = [Enable |-> TRUE, Prefixes |-> << >>]
    /\ logged = << >>

HeadersIdle ==
    inbound = << >> /\ ranged = {} /\ outbound = << >>
    /\ removeHopHeaders = FALSE /\ urlUser = FALSE /\ mapRequestDone = FALSE

DynamicIdle ==
    requestURL = [Scheme |-> << >>, Host |-> << >>] /\ requestHost = << >>
    /\ requestTLS = FALSE /\ dynamicBag = << >> /\ urlResolved = << >>

TasksIdle == tasks = << >>

EvictionIdle ==
    configuredPeriod = 0 /\ closeIdleConnsPeriod = 0 /\ evictor = "none"
    /\ sinceArmed = 0 /\ quitClosed = FALSE /\ evictions = 0

WorkersIdle == workers = << >> /\ inflightRequests = << >>

PipelineIdle ==
    /\ params = [MaxLoopbacks |-> 0, Debug |-> FALSE, CircuitBreakers |-> FALSE,
                 ExperimentalUpgrade |-> FALSE, DefaultHTTPStatus |-> 0]
    /\ request = [body |-> "NoBody"]
    /\ hooksLeft = 0
    /\ phase = "idle"
    /\ stack = << >>
    /\ stateBag = [lifo |-> << >>, ratelimit |-> 0, timeout |-> FALSE]
    /\ bodyDrained = FALSE
    /\ written = << >>
    /\ lifoCalls = << >>
    /\ drains = << >>
    /\ breakerLog = << >>
    /\ breakerAsk = 0
    /\ roundTrips = 0
    /\ attemptLog = << >>
    /\ hops = 0
    /\ raised = NilError
    /\ statusTag = 0
    /\ limiterChecks = 0 /\ lookups = 0 /\ limiterAsk = 0
    /\ scopes = 0 /\ cancelCalls = << >> /\ spans = 0
    /\ finished = << >> /\ closed = << >>
    /\ clientGone = "never" /\ storedStatus = 0 /\ measureServe = << >>
    /\ errorsBackend = 0

PanicsIdle == caughtPanic = FALSE /\ errorLog = << >> /\ panicCount = 0

----------------------------------------------------------------------------
Init ==
    /\ \E in \in Inputs :
        /\ params = in.params
        /\ request = [body |-> in.body]
        /\ hooksLeft = in.hooks
    /\ phase = "idle"
    /\ stack = << >>
    /\ stateBag = [lifo |-> << >>, ratelimit |-> 0, timeout |-> FALSE]
    /\ bodyDrained = FALSE
    /\ written = << >>
    /\ lifoCalls = << >>
    /\ drains = << >>
    /\ breakerLog = << >>
    /\ breakerAsk = 0
    /\ roundTrips = 0
    /\ attemptLog = << >>
    /\ hops = 0
    /\ limiterChecks = 0
    /\ lookups = 0
    /\ limiterAsk = 0
    /\ raised = NilError
    /\ statusTag = 0
    /\ scopes = 0
    /\ cancelCalls = << >>
    /\ spans = 0
    /\ finished = << >>
    /\ closed = << >>
    /\ caughtPanic = FALSE
    /\ errorLog = << >>
    /\ panicCount = 0
    /\ clientGone = "never"
    /\ storedStatus = 0
    /\ measureServe = << >>
    /\ errorsBackend = 0
    /\ AccessLogIdle /\ HeadersIdle /\ DynamicIdle /\ TasksIdle /\ WorkersIdle /\ EvictionIdle

\* ServeHTTP up to the call of do: the context is built.
ServeHTTPStart ==
    /\ phase = "idle"
    /\ phase' = "do"
    /\ stack' = << newFrame(newContext) >>
    /\ UNCHANGED <<aside, serving, params, request, stateBag, bodyDrained, written, lifoCalls,
                   drains, breakerLog, breakerAsk, roundTrips, attemptLog,
                   hooksLeft, hops,
                   gates, raised, statusTag, resources, panics>>

----------------------------------------------------------------------------
\* do, from its entry to the request filters (lines 1044-1080).

LoopGuard_offByOne(ctx, maxL) == ctx.executionCounter > maxL + 1

\* line 1045: the loop guard.
LoopGuard(ctx, maxL) == ctx.executionCounter > maxL

\* do returns e: the frame waits for its deferred drain.
Return(f, e) == [f EXCEPT !.pc = "return", !.err = e]

\* lines 1045-1047: the guard trips, before the drain is deferred.
DoMaxLoopbacks ==
    /\ Running /\ top.pc = "enter"
    /\ LoopGuard(top.ctx, maxLoops)
    /\ stack' = SetTop(Return(top, errMaxLoopbacksReached))
    /\ UNCHANGED <<aside, serving, params, request, phase, stateBag, bodyDrained, written,
                   lifoCalls, drains, breakerLog, breakerAsk, roundTrips,
                   attemptLog, hooksLeft, hops,
                   gates, raised, statusTag, resources, panics>>

limiterConsulted_always(ctx) == TRUE

\* line 1057: the global rate limiter is asked for a context that was not
\* executed yet.
limiterConsulted(ctx) == ~wasExecuted(ctx)

\* lines 1057-1062: the global rate limiter reports a positive retry-after.
DoRatelimited ==
    /\ Running /\ top.pc = "enter"
    /\ ~LoopGuard(top.ctx, maxLoops)
    /\ limiterConsulted(top.ctx)
    /\ limiterChecks' = limiterChecks + 1
    /\ stack' = SetTop(Return([top EXCEPT !.deferred = TRUE], newRatelimitError))
    /\ UNCHANGED <<aside, serving, params, request, phase, stateBag, bodyDrained, written,
                   lifoCalls, drains, breakerLog, breakerAsk, roundTrips,
                   attemptLog, hooksLeft, hops,
                   lookups, limiterAsk, raised, statusTag, resources, panics>>

\* lines 1057-1065: the limiter, if asked, lets the request pass.
LimiterPassed ==
    limiterChecks' = limiterChecks + (IF limiterConsulted(top.ctx) THEN 1 ELSE 0)

\* lines 1065-1076: the limiter lets the request pass (or is not asked),
\* the counter is incremented and no route matches.
DoRouteLookupFailed ==
    /\ Running /\ top.pc = "enter"
    /\ ~LoopGuard(top.ctx, maxLoops)
    /\ stack' = SetTop(Return(
            [top EXCEPT !.deferred = TRUE,
                        !.ctx.executionCounter = top.ctx.executionCounter + 1],
            errRouteLookupFailed))
    /\ LimiterPassed
    /\ lookups' = lookups + 1
    /\ UNCHANGED <<aside, serving, params, request, phase, stateBag, bodyDrained, written,
                   lifoCalls, drains, breakerLog, breakerAsk, roundTrips,
                   attemptLog, hooksLeft, hops,
                   limiterAsk, raised, statusTag, resources, panics>>

Min(a, b) == IF a < b THEN a ELSE b

\* lines 1065-1080: a route matches and is applied; applyFiltersToRequest
\* starts with an empty list of processed filters.
DoRouteMatched ==
    /\ Running /\ top.pc = "enter"
    /\ ~LoopGuard(top.ctx, maxLoops)
    /\ \E bt \in BackendTypes, nf \in 0 .. Min(MaxFilters, hooksLeft) :
        /\ stack' = SetTop(
                [top EXCEPT !.deferred = TRUE,
                            !.ctx.executionCounter = top.ctx.executionCounter + 1,
                            !.ctx.route = [BackendType |-> bt, nf |-> nf],
                            !.pc = "reqFilters"])
        /\ hooksLeft' = hooksLeft - nf
    /\ LimiterPassed
    /\ lookups' = lookups + 1
    /\ UNCHANGED <<aside, serving, params, request, phase, stateBag, bodyDrained, written,
                   lifoCalls, drains, breakerLog, breakerAsk, roundTrips,
                   attemptLog, hops,
                   limiterAsk, raised, statusTag, resources, panics>>

----------------------------------------------------------------------------
\* The filter runner (lines 741-809).

\* The StatusCode of the backend rate-limit settings a filter may put into
\* the state bag (0 in the bag: no settings).
RatelimitStatuses == {StatusTooManyRequests, StatusServiceUnavailable}

\* What a request hook may do to the context and the state bag.
Effects == {"none", "shunt", "dshunt", "lifo", "ratelimit", "timeout", "panic"}

\* The status of the response a filter serves.
FilterServeStatus == 200

\* fi.Request(ctx) of the filter with index i (1-based).
applyRequestHook(ctx, eff) ==
    CASE eff = "shunt" ->
            [ctx EXCEPT !.servedWithResponse = TRUE,
                        !.response = Response(FilterServeStatus, "filter", {}, "data")]
      [] eff = "dshunt" -> [ctx EXCEPT !.deprecatedServed = TRUE]
      [] OTHER -> ctx

\* tryCatch (lines 723-738) around a hook that panics or not: the new value
\* of caughtPanic, and whether onErr gets a stack trace.
tryCatch(caught, panicked) ==
    [caughtPanic |-> caught \/ panicked, stack |-> panicked /\ ~caught]

\* lines 763-766 and 797-800: onErr on a debug proxy collects the panic.
collectPanic(ctx, p, panicked) ==
    IF panicked /\ p.Debug
    THEN [ctx EXCEPT !.debugFilterPanics = ctx.debugFilterPanics + 1]
    ELSE ctx

logPanic_debugToo(log, p, panicked, entry) ==
    IF panicked THEN Append(log, entry) ELSE log

\* lines 761-769 and 795-803: onErr logs the panic unless the proxy is a
\* debug proxy.
logPanic(log, p, panicked, entry) ==
    IF panicked /\ ~p.Debug THEN Append(log, entry) ELSE log

\* The effects of tryCatch and onErr outside the context, for the hook of
\* phase ph of filter i.
Caught(panicked, ph, i) ==
    LET t == tryCatch(caughtPanic, panicked)
    IN /\ caughtPanic' = t.caughtPanic
       /\ errorLog' = logPanic(errorLog, params, panicked,
                               [ph |-> ph, i |-> i, stack |-> t.stack])
       /\ panicCount' = panicCount + (IF panicked THEN 1 ELSE 0)

\* lines 751-774: one turn of the loop of applyFiltersToRequest.
FilterRequest ==
    /\ Running /\ top.pc = "reqFilters"
    /\ top.processed < top.ctx.route.nf /\ ~top.stopped
    /\ \E eff \in Effects, st \in RatelimitStatuses :
        /\ eff = "lifo" => Len(stateBag.lifo) < MaxLIFO
        /\ eff # "ratelimit" => st = StatusTooManyRequests
        /\ LET i == top.processed + 1
               c == collectPanic(applyRequestHook(top.ctx, eff), params,
                                 eff = "panic")
               stop == deprecatedShunted(c) \/ shunted(c)
           IN /\ stack' = SetTop(
                [top EXCEPT !.ctx = c,
                            !.processed = i,
                            !.stopped = stop,
                            !.hooks = Append(top.hooks,
                                [ph |-> "request", i |-> i, stop |-> stop,
                                 panic |-> eff = "panic"])])
              /\ Caught(eff = "panic", "request", i)
        /\ stateBag' =
             CASE eff = "lifo" ->
                    [stateBag EXCEPT !.lifo = Append(stateBag.lifo, Len(stateBag.lifo) + 1)]
               [] eff = "ratelimit" -> [stateBag EXCEPT !.ratelimit = st]
               [] eff = "timeout" -> [stateBag EXCEPT !.timeout = TRUE]
               [] OTHER -> stateBag
        \* a filter that shunts the deprecated way has written the response
        /\ written' = IF eff = "dshunt"
                      THEN Append(written, [by |-> "filter", kind |-> "filter",
                                            status |-> FilterServeStatus,
                                            header |-> {}])
                      ELSE written
    /\ UNCHANGED <<aside, serving, params, request, phase, bodyDrained, lifoCalls, drains,
                   breakerLog, breakerAsk, roundTrips, attemptLog, hooksLeft,
                   hops,
                   gates, raised, statusTag, resources>>

\* applyFiltersToRequest has returned processedFilters.
BranchReady ==
    /\ Running /\ top.pc = "reqFilters"
    /\ (top.processed = top.ctx.route.nf \/ top.stopped)

respFilterIndex_forward(last, i) == i

\* line 788: fi := filters[last-i], as 0-based indices.
respFilterIndex(last, i) == last - i

\* lines 1167-1169: addBranding, then the response filters.
ToResponsePhase(f) ==
    IF f.processed = 0 THEN Return(f, NilError)
    ELSE [f EXCEPT !.pc = "respFilters", !.ri = 0]

\* lines 787-806: one turn of the loop of applyFiltersToResponse.
FilterResponse ==
    /\ Running /\ top.pc = "respFilters"
    /\ top.ri < top.processed
    /\ \E panicked \in BOOLEAN :
        LET idx == respFilterIndex(top.processed - 1, top.ri) + 1
            f == [top EXCEPT !.ri = top.ri + 1,
                             !.ctx = collectPanic(top.ctx, params, panicked),
                             !.hooks = Append(top.hooks,
                                 [ph |-> "response", i |-> idx, stop |-> FALSE,
                                  panic |-> panicked])]
        IN /\ stack' = SetTop(IF f.ri = f.processed THEN Return(f, NilError) ELSE f)
           /\ Caught(panicked, "response", idx)
    /\ UNCHANGED <<aside, serving, params, request, phase, stateBag, bodyDrained, written,
                   lifoCalls, drains, breakerLog, breakerAsk, roundTrips,
                   attemptLog, hooksLeft, hops,
                   gates, raised, statusTag, resources>>

----------------------------------------------------------------------------
\* The branches of do after the request filters (lines 1082-1120).

\* io.Copy(io.Discard, body) under `body != nil`.
discardBody(drained, body) == drained \/ body # "nil"

\* lines 1082-1084.
DoDeprecatedShunt ==
    /\ BranchReady
    /\ deprecatedShunted(top.ctx)
    /\ stack' = SetTop(Return(top, errHandled))
    /\ UNCHANGED <<aside, serving, params, request, phase, stateBag, bodyDrained, written,
                   lifoCalls, drains, breakerLog, breakerAsk, roundTrips,
                   attemptLog, hooksLeft, hops,
                   gates, raised, statusTag, resources, panics>>

IsShunt_routeOnly(ctx) == ctx.route.BackendType = "shunt"

\* line 1085.
IsShunt(ctx) == shunted(ctx) \/ ctx.route.BackendType = "shunt"

\* lines 1085-1092.
DoShunt ==
    /\ BranchReady
    /\ ~deprecatedShunted(top.ctx)
    /\ IsShunt(top.ctx)
    /\ bodyDrained' = discardBody(bodyDrained, request.body)
    /\ stack' = SetTop(ToResponsePhase(
            [top EXCEPT !.ctx = ensureDefaultResponse(top.ctx)]))
    /\ UNCHANGED <<aside, serving, params, request, phase, stateBag, written, lifoCalls,
                   drains, breakerLog, breakerAsk, roundTrips, attemptLog,
                   hooksLeft, hops,
                   gates, raised, statusTag, resources, panics>>

IsLoopback(ctx) ==
    /\ ~deprecatedShunted(ctx) /\ ~IsShunt(ctx)
    /\ ctx.route.BackendType = "loopback"

\* lines 1093-1095: the context is cloned and do is called on the clone.
DoLoopback ==
    /\ BranchReady
    /\ IsLoopback(top.ctx)
    /\ stack' = Append(SetTop([top EXCEPT !.pc = "loopback"]),
                       newFrame(clone(top.ctx)))
    /\ hops' = hops + 1
    /\ UNCHANGED <<aside, serving, params, request, phase, stateBag, bodyDrained, written,
                   lifoCalls, drains, breakerLog, breakerAsk, roundTrips,
                   attemptLog, hooksLeft,
                   gates, raised, statusTag, resources, panics>>

IsDebugBranch(ctx) ==
    /\ ~deprecatedShunted(ctx) /\ ~IsShunt(ctx)
    /\ ctx.route.BackendType # "loopback"
    /\ Debug

debugResponse_nil == NilResponse

\* line 1107: &http.Response{Header: make(http.Header)}.
debugResponse == Response(0, "debug", {}, "nil")

\* lines 1101-1108: mapRequest may fail (http.NewRequestWithContext).
DoDebug ==
    /\ BranchReady
    /\ IsDebugBranch(top.ctx)
    /\ \E mapped \in BOOLEAN :
         stack' = SetTop(
            IF mapped
            THEN ToResponsePhase([top EXCEPT !.ctx = setResponse(top.ctx, debugResponse)])
            ELSE Return(top, proxyError("mapRequest", 0, FALSE, FALSE, {})))
    /\ UNCHANGED <<aside, serving, params, request, phase, stateBag, bodyDrained, written,
                   lifoCalls, drains, breakerLog, breakerAsk, roundTrips,
                   attemptLog, hooksLeft, hops,
                   gates, raised, statusTag, resources, panics>>

IsBackendBranch_debugToo(ctx) ==
    /\ ~deprecatedShunted(ctx) /\ ~IsShunt(ctx)
    /\ ctx.route.BackendType # "loopback"

\* line 1109: the last else of the branches.
IsBackendBranch(ctx) ==
    /\ ~deprecatedShunted(ctx) /\ ~IsShunt(ctx)
    /\ ctx.route.BackendType # "loopback"
    /\ ~Debug

\* checkBreaker (lines 1015-1034): what it returns, as [done, allow, asked].
\* The registry and the breaker are external: with a registry configured
\* the route may have no breaker (b == nil), or Allow answers either way.
checkBreakerResults(p) ==
    IF ~p.CircuitBreakers
    THEN {[done |-> FALSE, allow |-> TRUE, asked |-> FALSE]}
    ELSE {[done |-> FALSE, allow |-> TRUE, asked |-> FALSE],
          [done |-> TRUE, allow |-> TRUE, asked |-> TRUE],
          [done |-> FALSE, allow |-> FALSE, asked |-> TRUE]}

\* lines 1029-1032: the body is consumed when the breaker denies.
checkBreakerDrains(allow, drained, body) ==
    IF ~allow THEN discardBody(drained, body) ELSE drained

\* lines 1111-1115: the breaker denies.
DoBreakerOpen ==
    /\ BranchReady
    /\ IsBackendBranch(top.ctx)
    /\ \E r \in checkBreakerResults(params) :
        /\ ~r.allow
        /\ breakerAsk' = breakerAsk + 1
        /\ bodyDrained' = checkBreakerDrains(r.allow, bodyDrained, request.body)
        /\ stack' = SetTop(Return(top, errCircuitBreakerOpen))
    /\ UNCHANGED <<aside, serving, params, request, phase, stateBag, written, lifoCalls,
                   drains, breakerLog, roundTrips, attemptLog, hooksLeft, hops,
                   gates, raised, statusTag, resources, panics>>

\* lines 1117-1120: a scope is derived when the bag holds a backend
\* timeout; scope is the identity of the new scope, 0 stands for nil.
withBackendTimeout(ctx, bag, scope) ==
    IF bag.timeout THEN [ctx EXCEPT !.cancelBackendContext = scope] ELSE ctx

\* lines 1111-1122: the breaker allows (or there is none).
DoBreakerPass ==
    /\ BranchReady
    /\ IsBackendBranch(top.ctx)
    /\ \E r \in checkBreakerResults(params) :
        /\ r.allow
        /\ breakerAsk' = breakerAsk + (IF r.asked THEN 1 ELSE 0)
        /\ bodyDrained' = checkBreakerDrains(r.allow, bodyDrained, request.body)
        /\ stack' = SetTop([top EXCEPT
                !.pc = "backend", !.done = r.done,
                !.ctx = withBackendTimeout(top.ctx, stateBag, scopes + 1)])
    /\ scopes' = scopes + (IF stateBag.timeout THEN 1 ELSE 0)
    /\ UNCHANGED <<aside, serving, params, request, phase, stateBag, written, lifoCalls,
                   drains, breakerLog, roundTrips, attemptLog, hooksLeft, hops,
                   gates, raised, statusTag, cancelCalls, spans, finished,
                   closed, panics>>

----------------------------------------------------------------------------
\* makeBackendRequest (lines 872-968).

BackendStatuses == {200, 500}
StatusSwitchingProtocols == 101

\* What RoundTrip returns as its error: the dialer's proxyError of a failed
\* dial (lines 576-580) or of an elapsed context (lines 583-586), a
\* net.Error with or without timeout, or something else.
RoundTripErrors == {"dial", "dialContext", "netTimeout", "net", "other"}

\* req.Context().Err() after the failed round trip.
ContextErrs == {"nil", "Canceled", "DeadlineExceeded"}

\* The failures of a round trip that are followed: every error under a
\* live context, and under a cancelled or elapsed context the error of the
\* dialer and a net.Error.
RoundTripFailures ==
    {<<e, "nil">> : e \in RoundTripErrors}
    \cup {<<e, c>> : e \in {"dial", "net"}, c \in ContextErrs \ {"nil"}}

At(e, n) == [e EXCEPT !.n = n]

classify_errorFirst(err, cerr) ==
    CASE err = "dial" -> proxyError("dial", DialFailedCode, FALSE, TRUE, {})
      [] err = "dialContext" ->
           proxyError("dialContext", StatusGatewayTimeout, FALSE, FALSE, {})
      [] cerr = "Canceled" ->
           proxyError("canceled", StatusClientClosed, FALSE, FALSE, {})
      [] cerr = "DeadlineExceeded" ->
           proxyError("deadline", StatusGatewayTimeout, FALSE, FALSE, {})
      [] err = "netTimeout" ->
           proxyError("net.Error", StatusGatewayTimeout, FALSE, FALSE, {})
      [] err = "net" ->
           proxyError("net.Error", StatusServiceUnavailable, FALSE, FALSE, {})
      [] OTHER -> proxyError("unexpected", 0, FALSE, FALSE, {})

\* lines 928-965: the error makeBackendRequest returns for a failed round trip.
classify(err, cerr) ==
    IF cerr = "Canceled"
    THEN proxyError("canceled", StatusClientClosed, FALSE, FALSE, {})
    ELSE IF cerr = "DeadlineExceeded"
    THEN proxyError("deadline", StatusGatewayTimeout, FALSE, FALSE, {})
    ELSE CASE err = "dial" -> proxyError("dial", DialFailedCode, FALSE, TRUE, {})
           [] err = "dialContext" ->
                proxyError("dialContext", StatusGatewayTimeout, FALSE, FALSE, {})
           [] err = "netTimeout" ->
                proxyError("net.Error", StatusGatewayTimeout, FALSE, FALSE, {})
           [] err = "net" ->
                proxyError("net.Error", StatusServiceUnavailable, FALSE, FALSE, {})
           [] OTHER -> proxyError("unexpected", 0, FALSE, FALSE, {})

\* The stages of makeBackendRequest, in the order of the code: mapRequest
\* (line 873), rejectBackend (878), the inflight counter (882-885), the
\* upgrade (887-894), getRoundTripper (896), the proxy span (906), RoundTrip
\* (925).
Stages == << "map", "reject", "inflight", "upgrade", "roundtripper", "span",
             "roundtrip" >>

StageOf(name) == CHOOSE i \in 1 .. Len(Stages) : Stages[i] = name

\* The call got at least to the stage named.
Passed(last, name) == StageOf(last) >= StageOf(name)

\* No error of RoundTrip: the call returned before it, or it answered.
NoCause == [err |-> "nil", cerr |-> "nil"]

\* A return of makeBackendRequest and what the call did on its way; last
\* is the stage it returned from.
Result(ctx, bag, rsp, perr, last) ==
    [rsp |-> rsp, perr |-> perr,
     limiterAsked |-> Passed(last, "reject") /\ bag.ratelimit # 0,
     rejected |-> last = "reject",
     inflight |-> Passed(last, "inflight") /\ ctx.route.BackendType = "lb",
     span |-> Passed(last, "span"),
     roundTrip |-> Passed(last, "roundtrip"),
     upgraded |-> last = "upgrade",
     cause |-> NoCause]

\* lines 925-965: the return of makeBackendRequest when RoundTrip returned
\* the error e and the context of the outbound request reports c.
RoundTripFailed(ctx, bag, e, c, n) ==
    [Result(ctx, bag, NilResponse, At(classify(e, c), n), "roundtrip")
        EXCEPT !.cause = [err |-> e, cerr |-> c]]

rejectBackend_fixedStatus(bag, allow) ==
    IF bag.ratelimit # 0 /\ ~allow
    THEN Response(StatusTooManyRequests, "ratelimit", {<<"Content-Length", "0">>}, "empty")
    ELSE NilResponse

\* rejectBackend (lines 999-1013): the synthetic response, or nil.  allow
\* is the answer of the limiter; the bag holds the StatusCode of the
\* settings.
rejectBackend(bag, allow) ==
    IF bag.ratelimit # 0 /\ ~allow
    THEN Response(bag.ratelimit, "ratelimit", {<<"Content-Length", "0">>}, "empty")
    ELSE NilResponse

\* Everything makeBackendRequest can return for attempt n.
makeBackendRequestResults(ctx, bag, p, n) ==
    \* line 875: mapRequest fails
    {Result(ctx, bag, NilResponse,
            At(proxyError("mapRequest", 0, FALSE, FALSE, {}), n), "map")}
    \cup
    \* lines 878-880: the backend rate limiter rejects
    (IF rejectBackend(bag, FALSE) # NilResponse
     THEN {Result(ctx, bag, rejectBackend(bag, FALSE), NilError, "reject")}
     ELSE {})
    \cup
    \* lines 887-894: the request is a protocol upgrade
    (IF p.ExperimentalUpgrade
     THEN {Result(ctx, bag, NilResponse, At(errHandled, n), "upgrade")}
     ELSE {})
    \cup
    \* line 898: no round tripper
    {Result(ctx, bag, NilResponse,
            At(proxyError("roundtripper", StatusBadGateway, FALSE, FALSE, {}), n),
            "roundtripper")}
    \cup
    \* lines 925-965: the round trip fails
    {RoundTripFailed(ctx, bag, f[1], f[2], n) : f \in RoundTripFailures}
    \cup
    \* lines 966-967: the round trip answers
    {Result(ctx, bag, Response(st, "backend", {}, "data"), NilError, "roundtrip") :
        st \in BackendStatuses}

retryable_anyBackend(ctx, perr, req) ==
    /\ perr.code # StatusClientClosed /\ perr.dialingFailed
    /\ (req.body = "nil" \/ req.body = "NoBody")

\* lines 1172-1177.
retryable(ctx, perr, req) ==
    /\ perr.code # StatusClientClosed /\ perr.dialingFailed
    /\ ctx.route.BackendType = "lb"
    /\ (req.body = "nil" \/ req.body = "NoBody")

breakerSuccess_inclusive(status) == status <= StatusInternalServerError

\* line 1159: the argument of done for a response.
breakerSuccess(status) == status < StatusInternalServerError

retryError_first(perr, perr2) == perr

\* line 1147: the error do returns when the retry fails.
retryError(perr, perr2) == perr2

\* The effects of one call of makeBackendRequest outside the frame.
Attempted(r, n) ==
    /\ roundTrips' = roundTrips + (IF r.roundTrip THEN 1 ELSE 0)
    /\ limiterAsk' = limiterAsk + (IF r.limiterAsked THEN 1 ELSE 0)
    /\ attemptLog' = Append(attemptLog,
            [n |-> n, rsp |-> r.rsp, perr |-> r.perr,
             limiterAsked |-> r.limiterAsked, rejected |-> r.rejected,
             inflight |-> r.inflight,
             span |-> r.span, roundTrip |-> r.roundTrip, cause |-> r.cause])
    /\ written' = IF r.upgraded
                  THEN Append(written, [by |-> "makeUpgradeRequest",
                                        kind |-> "upgrade",
                                        status |-> StatusSwitchingProtocols,
                                        header |-> {}])
                  ELSE written
    /\ spans' = spans + (IF r.span THEN 1 ELSE 0)

\* line 906: the context holds the span the call created; span is the
\* identity of the new span, 0 stands for nil.
withProxySpan(ctx, r, span) ==
    IF r.span THEN [ctx EXCEPT !.proxySpan = span] ELSE ctx

\* lines 1372-1374 (and 1132-1134): the Finish of the context's proxy span.
finishProxySpan(ctx) ==
    IF ctx.proxySpan # 0 THEN << ctx.proxySpan >> ELSE << >>

Responded_notAdopted(f, rsp) == ToResponsePhase(f)

\* lines 1154-1165: a response was obtained.
Responded(f, rsp) ==
    ToResponsePhase([f EXCEPT !.ctx = setResponse(f.ctx, rsp)])

\* lines 1122-1130 and 1149-1165: the first attempt.
DoBackend ==
    /\ Running /\ top.pc = "backend"
    /\ \E r \in makeBackendRequestResults(top.ctx, stateBag, params, 1) :
        LET c == withProxySpan(top.ctx, r, spans + 1)
            f == [top EXCEPT !.attempts = 1, !.perr = r.perr,
                             !.ctx = [c EXCEPT !.successfulUpgrade =
                                         c.successfulUpgrade \/ r.upgraded]]
        IN
        /\ Attempted(r, 1)
        /\ errorsBackend' = errorsBackend + (IF r.perr # NilError THEN 1 ELSE 0)
        /\ IF r.perr # NilError
           THEN /\ breakerLog' = IF f.done THEN Append(breakerLog, FALSE) ELSE breakerLog
                /\ stack' = SetTop(IF retryable(f.ctx, r.perr, request)
                                   THEN [f EXCEPT !.pc = "retry"]
                                   ELSE Return(f, r.perr))
           ELSE /\ breakerLog' = IF f.done
                                 THEN Append(breakerLog, breakerSuccess(r.rsp.status))
                                 ELSE breakerLog
                /\ stack' = SetTop(Responded(f, r.rsp))
    /\ UNCHANGED <<aside, clientGone, storedStatus, measureServe, params, request, phase, stateBag, bodyDrained, lifoCalls,
                   drains, breakerAsk, hooksLeft, hops,
                   limiterChecks, lookups, raised, statusTag, scopes,
                   cancelCalls, finished, closed, panics>>

\* lines 1131-1148 and 1154-1165: the retry.
DoRetry ==
    /\ Running /\ top.pc = "retry"
    /\ \E r \in makeBackendRequestResults(top.ctx, stateBag, params, 2) :
        LET c == withProxySpan([top.ctx EXCEPT !.proxySpan = 0], r, spans + 1)
            f == [top EXCEPT !.attempts = 2,
                             !.ctx = [c EXCEPT !.successfulUpgrade =
                                         c.successfulUpgrade \/ r.upgraded]]
        IN
        /\ finished' = finished \o finishProxySpan(top.ctx)
        /\ Attempted(r, 2)
        /\ IF r.perr # NilError
           THEN /\ breakerLog' = breakerLog
                /\ stack' = SetTop(Return(f, retryError(f.perr, r.perr)))
           ELSE /\ breakerLog' = IF f.done
                                 THEN Append(breakerLog, breakerSuccess(r.rsp.status))
                                 ELSE breakerLog
                /\ stack' = SetTop(Responded(f, r.rsp))
    /\ UNCHANGED <<aside, serving, params, request, phase, stateBag, bodyDrained, lifoCalls,
                   drains, breakerAsk, hooksLeft, hops,
                   limiterChecks, lookups, raised, statusTag, scopes,
                   cancelCalls, closed, panics>>

----------------------------------------------------------------------------
\* The return of do (lines 1049-1054 and 1095-1100).

\* lines 1050-1053: the order in which the pending callbacks are invoked.
drainOrder(pendingLIFO) == pendingLIFO

loopbackResult_errorDropped(caller, loopCTX, err) ==
    Responded([caller EXCEPT !.ctx.proxySpan = loopCTX.proxySpan], loopCTX.response)

\* lines 1095-1099: the loopback branch after the inner do: its error is
\* returned, or its response and its proxy span are adopted.
loopbackResult(caller, loopCTX, err) ==
    IF err # NilError
    THEN Return(caller, err)
    ELSE Responded([caller EXCEPT !.ctx.proxySpan = loopCTX.proxySpan],
                   loopCTX.response)

\* do returns: its deferred drain runs if it was registered; the caller is
\* ServeHTTP for the root invocation and the loopback branch otherwise.
DoReturn ==
    /\ Running /\ top.pc = "return"
    /\ LET invoked == IF top.deferred THEN drainOrder(stateBag.lifo) ELSE << >>
       IN /\ lifoCalls' = lifoCalls \o invoked
          /\ drains' = IF top.deferred
                       THEN Append(drains, [pending |-> stateBag.lifo, invoked |-> invoked])
                       ELSE drains
    /\ IF Len(stack) = 1
       THEN /\ phase' = "respond"
            /\ stack' = SetTop([top EXCEPT !.pc = "returned"])
       ELSE LET loopCTX == top.ctx
                caller == stack[Len(stack) - 1]
                rest == SubSeq(stack, 1, Len(stack) - 1)
                resumed == loopbackResult(caller, loopCTX, top.err)
            IN /\ phase' = phase
               /\ stack' = [rest EXCEPT ![Len(rest)] = resumed]
    /\ raised' = IF raised = NilError THEN top.err ELSE raised
    /\ UNCHANGED <<aside, serving, params, request, stateBag, bodyDrained, written, breakerLog,
                   breakerAsk, roundTrips, attemptLog, hooksLeft, hops,
                   gates, statusTag, resources, panics>>

----------------------------------------------------------------------------
\* The responders and the end of ServeHTTP (lines 1179-1310, 1434-1445).

handledCheck_ignored(err) == FALSE

\* lines 1225-1228: errorResponse returns at once for a handled error.
handledCheck(err) == err.type = "proxyError" /\ err.handled

errorCode_dialCodeKept(err, defaultHTTPStatus) ==
    IF err = errRouteLookupFailed THEN defaultHTTPStatus
    ELSE IF err.type = "proxyError" /\ err.code # 0 THEN err.code
    ELSE StatusInternalServerError

\* lines 1244-1254.
errorCode(err, defaultHTTPStatus) ==
    IF err = errRouteLookupFailed THEN defaultHTTPStatus
    ELSE IF err.type = "proxyError" /\ err.code = DialFailedCode THEN StatusBadGateway
    ELSE IF err.type = "proxyError" /\ err.code # 0 THEN err.code
    ELSE StatusInternalServerError

\* What errorResponse writes to the client.
errorResponse(err, p) ==
    IF handledCheck(err) THEN << >>
    ELSE IF p.Debug
    THEN << [by |-> "errorResponse", kind |-> "dbgResponse",
             status |-> DebugDocumentStatus, header |-> {}] >>
    ELSE << [by |-> "errorResponse", kind |-> "sendError",
             status |-> errorCode(err, DefaultHTTPStatusOf(p)),
             header |-> IF err.type = "proxyError" THEN err.additionalHeader ELSE {}] >>

\* lines 841-847: sendError hands the code of the status page to
\* MeasureServe; a handled error and the debug document measure nothing.
sendErrorMeasure(err, p) ==
    IF handledCheck(err) \/ p.Debug THEN << >>
    ELSE << errorCode(err, DefaultHTTPStatusOf(p)) >>

\* When the inbound context is cancelled, as serveResponse can observe it:
\* Context().Err() is read once, before WriteHeader (line 1196); a client
\* that goes away later is an error of copyStream (line 1210).
CancelTimes == {"never", "beforeHeaders", "whileStreaming"}

\* lines 1196-1201: ctx.response.StatusCode when serveResponse returns.
storeStatus(ctx, p, cancelled) ==
    IF ~p.Debug /\ cancelled THEN StatusClientClosed ELSE ctx.response.status

\* line 1221: the status serveResponse hands to MeasureServe.
measuredServe(ctx, p, cancelled) ==
    IF p.Debug THEN << >> ELSE << storeStatus(ctx, p, cancelled) >>

serveResponse_statusKept(ctx, p, cancelled) ==
    IF p.Debug
    THEN << [by |-> "serveResponse", kind |-> "dbgResponse",
             status |-> DebugDocumentStatus, header |-> {}] >>
    ELSE << [by |-> "serveResponse", kind |-> "stream",
             status |-> ctx.response.status, header |-> {}] >>

\* What serveResponse writes to the client; cancelled is whether the
\* inbound context has an error when the headers are about to be written.
serveResponse(ctx, p, cancelled) ==
    IF p.Debug
    THEN << [by |-> "serveResponse", kind |-> "dbgResponse",
             status |-> DebugDocumentStatus, header |-> {}] >>
    ELSE << [by |-> "serveResponse", kind |-> "stream",
             status |-> IF cancelled THEN StatusClientClosed ELSE ctx.response.status,
             header |-> {}] >>

\* lines 1256-1257: the status tag errorResponse sets on the initial span.
errorStatusTag(err, p, tag) ==
    IF handledCheck(err) THEN tag ELSE errorCode(err, DefaultHTTPStatusOf(p))

\* line 1204: the status tag serveResponse sets on the initial span.
serveStatusTag(ctx, p, cancelled, tag) ==
    IF p.Debug THEN tag
    ELSE IF cancelled THEN StatusClientClosed ELSE ctx.response.status

closeBody_never(ctx) == << >>

\* lines 1425-1432: the deferred Close of the body of the context's response.
closeBody(ctx) ==
    IF ctx.response # NilResponse /\ ctx.response.body # "nil"
    THEN << ctx.response >>
    ELSE << >>

\* lines 1442-1444: the cancel of the root context's scope, if it has one.
cancelBackend(ctx) ==
    IF ctx.cancelBackendContext # 0 THEN << ctx.cancelBackendContext >> ELSE << >>

\* lines 1434-1445, error branch.
ServeHTTPError ==
    /\ phase = "respond" /\ top.err # NilError
    /\ written' = written \o errorResponse(top.err, params)
    /\ cancelCalls' = cancelCalls \o cancelBackend(top.ctx)
    /\ finished' = finished \o finishProxySpan(top.ctx)
    /\ closed' = closed \o closeBody(top.ctx)
    /\ statusTag' = errorStatusTag(top.err, params, statusTag)
    /\ measureServe' = measureServe \o sendErrorMeasure(top.err, params)
    /\ phase' = "done"
    /\ UNCHANGED <<aside, clientGone, storedStatus, errorsBackend, params, request, stack, stateBag, bodyDrained, lifoCalls,
                   drains, breakerLog, breakerAsk, roundTrips, attemptLog,
                   hooksLeft, hops,
                   gates, raised, scopes, spans, panics>>

\* lines 1434-1445, success branch.
ServeHTTPResponse ==
    /\ phase = "respond" /\ top.err = NilError
    /\ \E gone \in CancelTimes :
         LET cancelled == gone = "beforeHeaders" IN
         /\ clientGone' = gone
         /\ written' = written \o serveResponse(top.ctx, params, cancelled)
         /\ statusTag' = serveStatusTag(top.ctx, params, cancelled, statusTag)
         /\ storedStatus' = storeStatus(top.ctx, params, cancelled)
         /\ measureServe' = measureServe \o measuredServe(top.ctx, params, cancelled)
    /\ cancelCalls' = cancelCalls \o cancelBackend(top.ctx)
    /\ finished' = finished \o finishProxySpan(top.ctx)
    /\ closed' = closed \o closeBody(top.ctx)
    /\ phase' = "done"
    /\ UNCHANGED <<aside, errorsBackend, params, request, stack, stateBag, bodyDrained, lifoCalls,
                   drains, breakerLog, breakerAsk, roundTrips, attemptLog,
                   hooksLeft, hops,
                   gates, raised, scopes, spans, panics>>

Next ==
    \/ ServeHTTPStart
    \/ DoMaxLoopbacks \/ DoRatelimited \/ DoRouteLookupFailed \/ DoRouteMatched
    \/ FilterRequest \/ FilterResponse
    \/ DoDeprecatedShunt \/ DoShunt \/ DoLoopback \/ DoDebug
    \/ DoBreakerOpen \/ DoBreakerPass
    \/ DoBackend \/ DoRetry \/ DoReturn
    \/ ServeHTTPError \/ ServeHTTPResponse

Spec == Init /\ [][Next]_vars

----------------------------------------------------------------------------
\* errorResponse as a function of the error and the configuration: do has
\* returned err to ServeHTTP, on a proxy with any Params.DefaultHTTPStatus.

\* The errors do can return, and proxy errors with other codes.
ErrorValues ==
    {errMaxLoopbacksReached, errRouteLookupFailed, errCircuitBreakerOpen,
     newRatelimitError, errHandled,
     proxyError("mapRequest", 0, FALSE, FALSE, {}),
     proxyError("roundtripper", StatusBadGateway, FALSE, FALSE, {})}
    \cup {classify(e, c) : e \in RoundTripErrors, c \in ContextErrs}
    \cup {proxyError("other", c, FALSE, FALSE, {}) : c \in {0 - 1, 0, 1, 418}}

\* Values of Params.DefaultHTTPStatus around the bounds of lines 685-689.
DefaultHTTPStatuses == {0, 99, 100, 200, 418, 511, 512}

InitErrorResponse ==
    /\ params \in [MaxLoopbacks : {0}, Debug : BOOLEAN, CircuitBreakers : {FALSE},
                    ExperimentalUpgrade : {FALSE},
                    DefaultHTTPStatus : DefaultHTTPStatuses]
    /\ request = [body |-> "NoBody"]
    /\ hooksLeft = 0
    /\ phase = "respond"
    /\ \E err \in ErrorValues :
         /\ stack = << [newFrame(newContext) EXCEPT !.pc = "returned", !.err = err] >>
         /\ raised = err
    /\ stateBag = [lifo |-> << >>, ratelimit |-> 0, timeout |-> FALSE]
    /\ bodyDrained = FALSE
    /\ written = << >>
    /\ lifoCalls = << >>
    /\ drains = << >>
    /\ breakerLog = << >>
    /\ breakerAsk = 0
    /\ roundTrips = 0
    /\ attemptLog = << >>
    /\ hops = 0
    /\ limiterChecks = 0
    /\ lookups = 0
    /\ limiterAsk = 0
    /\ statusTag = 0
    /\ scopes = 0
    /\ cancelCalls = << >>
    /\ spans = 0
    /\ finished = << >>
    /\ closed = << >>
    /\ caughtPanic = FALSE
    /\ errorLog = << >>
    /\ panicCount = 0
    /\ clientGone = "never"
    /\ storedStatus = 0
    /\ measureServe = << >>
    /\ errorsBackend = 0
    /\ AccessLogIdle /\ HeadersIdle /\ DynamicIdle /\ TasksIdle /\ WorkersIdle /\ EvictionIdle

NextErrorResponse == ServeHTTPError

SpecErrorResponse == InitErrorResponse /\ [][NextErrorResponse]_vars

----------------------------------------------------------------------------
\* Properties.

IsFinished(f) == f.pc \in {"return", "returned"}

NumRequestHooks(f) == Cardinality({i \in 1 .. Len(f.hooks) : f.hooks[i].ph = "request"})

\* C1: one request gets exactly one response: never more than one write;
\* when ServeHTTP has returned there is exactly one, serveResponse and
\* errorResponse have not both written, errorResponse wrote nothing for a
\* handled error, and otherwise one of the two wrote exactly once.
C1_ExactlyOneResponse ==
    /\ Len(written) <= 1
    /\ phase = "done" =>
        LET engine == {i \in 1 .. Len(written) :
                          written[i].by \in {"serveResponse", "errorResponse"}}
            handled == top.err.type = "proxyError" /\ top.err.handled
        IN /\ Len(written) = 1
           /\ ~(\E i, j \in engine : written[i].by # written[j].by)
           /\ handled => engine = {}
           /\ ~handled => Cardinality(engine) = 1
           /\ top.err = NilError <=> (\E i \in engine : written[i].by = "serveResponse")

\* The request was answered by the upgrade path, and errorResponse, called
\* with the handled error, wrote nothing.
C1_Witness ==
    /\ phase = "done"
    /\ top.err.handled
    /\ Len(written) = 1 /\ written[1].kind = "upgrade"

\* C2: when do returns no error, the hooks it invoked are the request hooks
\* 1..k in index order, k being the first filter that left the context
\* shunted (all of them if none did), followed by the response hooks
\* k, k-1, ..., 1, each once; no hook of a later filter was invoked.
C2_FilterOrder ==
    \A j \in 1 .. Len(stack) :
        LET f == stack[j]
            k == NumRequestHooks(f)
        IN (IsFinished(f) /\ f.err = NilError) =>
            /\ Len(f.hooks) = 2 * k
            /\ k <= f.ctx.route.nf
            /\ \A i \in 1 .. k :
                 /\ f.hooks[i].ph = "request" /\ f.hooks[i].i = i
                 /\ f.hooks[i].stop => i = k
                 /\ f.hooks[k + i].ph = "response" /\ f.hooks[k + i].i = k + 1 - i
            /\ k < f.ctx.route.nf => (k > 0 /\ f.hooks[k].stop)

\* A do that ran both filters of its route and both response hooks.
C2_Witness ==
    \E j \in 1 .. Len(stack) :
        /\ IsFinished(stack[j]) /\ stack[j].err = NilError
        /\ Len(stack[j].hooks) = 4

RetryCondition(perr, bt, body) ==
    /\ perr.code # 499
    /\ perr.dialingFailed
    /\ bt = "lb"
    /\ body \in {"nil", "NoBody"}

AttemptsOver(f) == f.attempts >= 1 /\ f.pc \in {"respFilters", "return", "returned"}

\* C3: one do makes at most two backend attempts; it makes the second if
\* and only if the first failed with a code other than 499 and the
\* dialingFailed flag, on a load-balanced route, for a request whose body is
\* nil or http.NoBody.
C3_RetryOnce ==
    /\ Len(attemptLog) <= 2
    /\ \A j \in 1 .. Len(stack) :
        LET f == stack[j]
            cond == /\ f.perr # NilError
                    /\ RetryCondition(f.perr, f.ctx.route.BackendType, request.body)
        IN /\ f.attempts <= 2
           /\ f.pc = "retry" => (f.attempts = 1 /\ cond)
           /\ AttemptsOver(f) => (f.attempts = 2 <=> cond)

\* A do that has made its retry.
C3_Witness ==
    \E j \in 1 .. Len(stack) : AttemptsOver(stack[j]) /\ stack[j].attempts = 2

\* C4: after a retry, do returns the error of the retry if the retry
\* failed, and otherwise no error with the response of the retry.
C4_RetryResult ==
    \A j \in 1 .. Len(stack) :
        LET f == stack[j]
        IN (AttemptsOver(f) /\ f.attempts = 2) =>
            LET second == attemptLog[2]
            IN /\ second.n = 2
               /\ second.perr # NilError =>
                    (IsFinished(f) /\ f.err = second.perr /\ f.err.n = 2)
               /\ second.perr = NilError =>
                    (f.err = NilError /\ f.ctx.response = second.rsp)

\* Both attempts failed and do has returned.
C4_Witness ==
    /\ Len(stack) = 1 /\ IsFinished(top)
    /\ top.attempts = 2
    /\ attemptLog[1].perr # NilError /\ attemptLog[2].perr # NilError

\* C5: under a breaker that allowed the request, done(false) is reported
\* for a failed first attempt before the retry starts, and a response is
\* reported with done(status < 500) after its attempt: a dial failure
\* followed by a retry answered below 500 gives done(false), done(true).
C5_BreakerDone ==
    \A j \in 1 .. Len(stack) :
        LET f == stack[j]
        IN (f.done /\ f.attempts >= 1) =>
            /\ f.perr # NilError => (Len(breakerLog) >= 1 /\ breakerLog[1] = FALSE)
            /\ f.pc = "retry" => breakerLog = << FALSE >>
            /\ (f.attempts = 1 /\ f.perr = NilError) =>
                    breakerLog = << attemptLog[1].rsp.status < 500 >>
            /\ (f.attempts = 2 /\ attemptLog[2].perr = NilError) =>
                    breakerLog = << FALSE, attemptLog[2].rsp.status < 500 >>

\* A dial failure, then a retry answered with 200: done(false), done(true).
C5_Witness ==
    /\ Len(attemptLog) = 2
    /\ attemptLog[1].perr.dialingFailed
    /\ attemptLog[2].rsp.status = 200
    /\ breakerLog = << FALSE, TRUE >>

BreakerDenied == \E j \in 1 .. Len(stack) : stack[j].err.id = "errCircuitBreakerOpen"

\* C6: a request the breaker denies makes no backend round trip, has its
\* body read to the end, and is answered with 503 and X-Circuit-Open.
C6_BreakerOpen ==
    BreakerDenied =>
        /\ roundTrips = 0 /\ attemptLog = << >>
        /\ request.body = "nil" \/ bodyDrained
        /\ phase = "done" =>
            /\ Len(written) = 1
            /\ written[1].status = 503
            /\ "X-Circuit-Open" \in written[1].header

\* The breaker denied a request with a body and ServeHTTP has returned.
C6_Witness ==
    /\ BreakerDenied /\ phase = "done"
    /\ request.body = "data" /\ bodyDrained

\* C7: when ServeHTTP has returned, every cleanup callback of the state
\* bag's LIFO list has been invoked exactly once.
C7_CleanupExactlyOnce ==
    phase = "done" =>
        \A c \in 1 .. Len(stateBag.lifo) : Count(stateBag.lifo[c], lifoCalls) = 1

\* C8: the deferred drain of do invokes the pending callbacks in the
\* reverse of the order in which they were pushed.
C8_CleanupReverseOrder ==
    \A d \in 1 .. Len(drains) : drains[d].invoked = Reverse(drains[d].pending)

\* The loop budget as the claim states it.
ClaimedMaxLoops ==
    IF params.MaxLoopbacks = 0 THEN 9
    ELSE IF params.MaxLoopbacks < 0 THEN 0
    ELSE params.MaxLoopbacks

IsMaxLoopbacks(e) == e.type = "maxLoopbackError" /\ e.id = "max loopbacks reached"

\* The loop guard rejects exactly the chains of more than maxLoops hops,
\* and such a request makes no backend round trip.
LoopBudget ==
    /\ hops <= ClaimedMaxLoops + 1
    /\ hops > ClaimedMaxLoops => roundTrips = 0
    /\ \A j \in 1 .. Len(stack) :
          IsMaxLoopbacks(stack[j].err) => hops > ClaimedMaxLoops
    /\ phase \in {"respond", "done"} =>
          (hops > ClaimedMaxLoops <=> IsMaxLoopbacks(top.err))

\* C9 as stated: a request of more than maxLoops hops ends with 'max
\* loopbacks reached', status 500 and no round trip; shorter chains are
\* not rejected by the guard.
C9_Original ==
    /\ LoopBudget
    /\ (phase = "done" /\ hops > ClaimedMaxLoops) =>
          (Len(written) = 1 /\ written[1].status = 500)

\* C9 amended: as C9, the status 500 being written unless the proxy runs
\* with the Debug flag; a debug proxy answers with the debug document.
C9_LoopGuard ==
    /\ LoopBudget
    /\ (phase = "done" /\ hops > ClaimedMaxLoops) =>
          /\ Len(written) = 1
          /\ ~params.Debug =>
                (written[1].kind = "sendError" /\ written[1].status = 500)
          /\ params.Debug => written[1].kind = "dbgResponse"

\* Under the default budget the tenth hop is rejected and answered 500.
C9_Witness ==
    /\ phase = "done"
    /\ params.MaxLoopbacks = 0 /\ hops = 10
    /\ IsMaxLoopbacks(top.err)
    /\ written[1].status = 500

C10_CounterState ==
    \A j \in 1 .. Len(stack) :
        LET f == stack[j]
        IN /\ f.ctx.executionCounter <= ClaimedMaxLoops + 1
           /\ f.pc = "enter" =>
                f.ctx.executionCounter =
                    (IF j = 1 THEN 0 ELSE stack[j - 1].ctx.executionCounter)
           /\ f.pc \in {"reqFilters", "loopback", "backend", "retry", "respFilters"} =>
                f.ctx.executionCounter = j

\* C10: a context's executionCounter never decreases and never exceeds
\* maxLoops+1; the root context starts at 0 and a clone starts at its
\* caller's counter, so the counter is 1 in the first matched route and 2
\* in the route reached by one loopback hop.
C10_ExecutionCounter ==
    [][/\ C10_CounterState /\ C10_CounterState'
       /\ \A j \in 1 .. Len(stack) :
            j <= Len(stack') =>
                stack'[j].ctx.executionCounter >= stack[j].ctx.executionCounter]_vars

\* The route reached by one loopback hop runs with the counter at 2.
C10_Witness ==
    /\ Len(stack) = 2
    /\ stack[2].pc = "reqFilters"
    /\ stack[1].ctx.executionCounter = 1 /\ stack[2].ctx.executionCounter = 2

----------------------------------------------------------------------------
\* The root invocation of do returned the error of the global rate limiter.
Ratelimited == Len(stack) = 1 /\ top.err = newRatelimitError

\* The part common to the claim and to its amended form: the limiter is
\* asked once, by the root invocation; a rejected request has its counter
\* at 0, no route lookup, no filter hook and no round trip.
C11_Gate ==
    /\ limiterChecks =
         (IF phase = "idle" \/ (Len(stack) = 1 /\ top.pc = "enter") THEN 0 ELSE 1)
    /\ Ratelimited =>
         /\ top.ctx.executionCounter = 0
         /\ lookups = 0
         /\ top.hooks = << >>
         /\ roundTrips = 0 /\ attemptLog = << >>

RatelimitPage ==
    [by |-> "errorResponse", kind |-> "sendError", status |-> StatusTooManyRequests,
     header |-> {"Retry-After", "X-Rate-Limit", "X-Rate-Limit-Duration"}]

\* C11 as stated: the global rate limiter is consulted exactly once per
\* request, by the root invocation of do, and a request it rejects ends
\* with status 429 and the rate-limit headers, with the counter left at 0
\* and without route lookup, filter hook or round trip.
C11_Original ==
    /\ C11_Gate
    /\ (phase = "done" /\ Ratelimited) => written = << RatelimitPage >>

\* C11, amended: as stated, but the 429 page with the rate-limit headers is
\* written only by a proxy without the Debug flag.
C11_GlobalRatelimit ==
    /\ C11_Gate
    /\ (phase = "done" /\ Ratelimited /\ ~Debug) => written = << RatelimitPage >>

C11_Witness ==
    /\ phase = "done" /\ Ratelimited /\ ~Debug
    /\ limiterChecks = 1 /\ written = << RatelimitPage >>

----------------------------------------------------------------------------
\* C12: when ServeHTTP has returned, the cancel of every backend-timeout
\* scope derived for the request (by the root invocation of do or by the
\* invocation on a loopback's clone) has been invoked.
C12_ScopeCancelled ==
    phase = "done" => \A id \in 1 .. scopes : Count(id, cancelCalls) >= 1

----------------------------------------------------------------------------
\* C13: when ServeHTTP has returned, every proxy span makeBackendRequest
\* created for the request has been finished exactly once.
C13_SpanFinishedOnce ==
    phase = "done" => \A id \in 1 .. spans : Count(id, finished) = 1

----------------------------------------------------------------------------
\* The responses with a body the request has obtained: those returned by
\* makeBackendRequest (backend, backend rate limit) and the one the root
\* context holds (its own, or adopted from the inner context of a loopback).
ObtainedBodies ==
    {r \in {attemptLog[i].rsp : i \in 1 .. Len(attemptLog)}
            \cup {stack[j].ctx.response : j \in 1 .. Len(stack)} :
        r # NilResponse /\ r.body # "nil"}

\* C14: every response body obtained for the request is closed exactly
\* once, and not before do and the responder have completed.
C14_BodyClosedOnce ==
    /\ phase # "done" => closed = << >>
    /\ phase = "done" => \A r \in ObtainedBodies : Count(r, closed) = 1
    /\ Cardinality(ObtainedBodies) <= 1

C14_Witness ==
    /\ phase = "done" /\ hops > 0
    /\ \E i \in 1 .. Len(attemptLog) :
          attemptLog[i].rsp.from = "ratelimit" /\ closed = << attemptLog[i].rsp >>

----------------------------------------------------------------------------
\* The status the claim gives for an error.
ClaimedStatus(err, p) ==
    CASE err = errRouteLookupFailed ->
            (IF p.DefaultHTTPStatus \in 100 .. 511 THEN p.DefaultHTTPStatus ELSE 404)
      [] err # errRouteLookupFailed /\ err.type = "proxyError" /\ err.code = 0 - 1 -> 502
      [] err # errRouteLookupFailed /\ err.type = "proxyError" /\ err.code \notin {0 - 1, 0} ->
            err.code
      [] OTHER -> 500

\* C15: errorResponse resolves the status of an error it answers: the
\* configured default status for errRouteLookupFailed (404 unless
\* Params.DefaultHTTPStatus is in 100..511), 502 for a proxy error with
\* code -1, the error's code when it is another non-zero code, and 500
\* otherwise; it sets the status as the tag of the initial span and, without
\* the Debug flag, sends it.
C15_ErrorStatus ==
    (phase = "done" /\ top.err # NilError /\ ~top.err.handled) =>
        /\ statusTag = ClaimedStatus(top.err, params)
        /\ ~Debug => written[Len(written)].status = ClaimedStatus(top.err, params)

C15_Witness ==
    /\ phase = "done" /\ ~Debug
    /\ top.err.type = "proxyError" /\ top.err.code = 0 - 1
    /\ params.DefaultHTTPStatus = 418
    /\ statusTag = 502 /\ written[Len(written)].status = 502

----------------------------------------------------------------------------
\* C16: a call of makeBackendRequest in which the backend rate limiter
\* rejects returns, without error, a response with the status of the
\* settings in the state bag, the header Content-Length: 0 and an empty
\* body; the call increments no inflight counter, creates no proxy span and
\* makes no round trip.  Only such a call returns a synthetic response.
C16_BackendRatelimit ==
    \A i \in 1 .. Len(attemptLog) :
        LET a == attemptLog[i] IN
        /\ a.rejected =>
              /\ stateBag.ratelimit # 0 /\ a.limiterAsked
              /\ a.rsp # NilResponse
              /\ a.rsp.status = stateBag.ratelimit
              /\ a.rsp.header = {<<"Content-Length", "0">>}
              /\ a.rsp.body = "empty"
              /\ a.perr = NilError
              /\ ~a.inflight /\ ~a.span /\ ~a.roundTrip
        /\ a.rsp.from = "ratelimit" => a.rejected
        /\ roundTrips = Cardinality({j \in 1 .. Len(attemptLog) : ~attemptLog[j].rejected
                                        /\ attemptLog[j].roundTrip})

C16_Witness ==
    /\ Len(attemptLog) = 1 /\ attemptLog[1].rejected
    /\ attemptLog[1].rsp.status = StatusServiceUnavailable
    /\ stack[Len(stack)].ctx.route.BackendType = "lb"
    /\ roundTrips = 0 /\ spans = 0

----------------------------------------------------------------------------
\* An invocation of do has returned an error that is not the handled
\* sentinel: the error of a gate (global rate limit, breaker), of the
\* request mapping or of the backend call, or of the loop guard or the
\* route lookup.
Aborted == raised # NilError /\ ~raised.handled

NoResponseHook(f) == \A k \in 1 .. Len(f.hooks) : f.hooks[k].ph # "response"

----------------------------------------------------------------------------
PanicsIn(f) == Cardinality({k \in 1 .. Len(f.hooks) : f.hooks[k].panic})

\* A panic of a hook stays within the filter runner: the request loop goes
\* on with the next filter, the panicking filter is among the processed
\* ones, and a do that returns no error has run the response hook of every
\* processed filter, whichever hooks panicked.
C18_Contained ==
    \A j \in 1 .. Len(stack) :
        LET f == stack[j] IN
        /\ f.processed = NumRequestHooks(f)
        /\ \A k \in 1 .. Len(f.hooks) :
              (f.hooks[k].ph = "request" /\ f.hooks[k].panic) =>
                 /\ ~f.hooks[k].stop
                 /\ f.hooks[k].i < f.ctx.route.nf =>
                       \/ f.pc = "reqFilters" /\ f.processed = f.hooks[k].i /\ ~f.stopped
                       \/ /\ k < Len(f.hooks)
                          /\ f.hooks[k + 1].ph = "request"
                          /\ f.hooks[k + 1].i = f.hooks[k].i + 1
        /\ (IsFinished(f) /\ f.err = NilError) =>
              \A i \in 1 .. f.processed :
                 Cardinality({k \in 1 .. Len(f.hooks) :
                                f.hooks[k].ph = "response" /\ f.hooks[k].i = i}) = 1

----------------------------------------------------------------------------
\* The invocation has left its request filters with the shunted flag set
\* or on a route of shunt type.
ShuntCase(f) ==
    /\ f.ctx.servedWithResponse \/ f.ctx.route.BackendType = "shunt"
    /\ f.pc \in {"backend", "retry", "respFilters", "return", "returned"}

\* What the claim says of such an invocation.
ShuntOutcome(f) ==
    /\ f.attempts = 0 /\ ~f.done
    /\ roundTrips = 0 /\ breakerAsk = 0 /\ limiterAsk = 0
    /\ bodyDrained \/ request.body = "nil"
    /\ f.ctx.response # NilResponse
    /\ f.ctx.response.from = (IF f.ctx.servedWithResponse THEN "filter" ELSE "default")
    /\ IsFinished(f) =>
          /\ f.err = NilError
          /\ Len(f.hooks) = 2 * f.processed
          /\ \A i \in 1 .. f.processed :
                /\ f.hooks[i].ph = "request" /\ f.hooks[i].i = i
                /\ f.hooks[f.processed + i].ph = "response"
                /\ f.hooks[f.processed + i].i = f.processed + 1 - i

\* C19 as stated: when a request filter sets the shunted flag or the
\* matched route is of shunt type, there is no round trip, neither the
\* breaker nor the backend rate limiter is consulted, the request body is
\* drained, the context has a response (the default one if no filter set
\* one), and the response hooks of the executed prefix run before do
\* returns without error.
C19_Original ==
    \A j \in 1 .. Len(stack) : ShuntCase(stack[j]) => ShuntOutcome(stack[j])

\* C19, amended: as stated, unless a filter of the route has marked the
\* request served the deprecated way.
C19_Shunt ==
    \A j \in 1 .. Len(stack) :
        (ShuntCase(stack[j]) /\ ~stack[j].ctx.deprecatedServed) =>
            ShuntOutcome(stack[j])

\* The first of two filters served a response for a request with a body.
C19_Witness ==
    /\ Len(stack) = 1 /\ IsFinished(top)
    /\ top.ctx.servedWithResponse /\ top.ctx.route.nf = 2 /\ top.processed = 1
    /\ top.ctx.route.BackendType = "network"
    /\ request.body = "data" /\ bodyDrained
    /\ Len(top.hooks) = 2 /\ top.hooks[2].ph = "response"

----------------------------------------------------------------------------
\* The invocation has left its request filters on a route with a backend
\* (network, dynamic or load balanced), not shunted, and has not failed.
BackendCase(f) ==
    /\ f.ctx.route.BackendType \in {"network", "dynamic", "lb"}
    /\ ~f.ctx.servedWithResponse /\ ~f.ctx.deprecatedServed
    /\ f.pc \in {"backend", "retry", "respFilters", "return", "returned"}
    /\ f.err = NilError

----------------------------------------------------------------------------
\* ServeHTTP has returned and do had returned no error: serveResponse ran.
Served == phase = "done" /\ top.err = NilError

\* The statuses of the responses serveResponse wrote to the client.
ServedStatuses ==
    {written[i].status : i \in {j \in 1 .. Len(written) : written[j].by = "serveResponse"}}

\* C21 as stated: whenever the inbound context is already cancelled when
\* serveResponse starts, the status written to the client and the status
\* recorded by MeasureServe are 499.
C21_Original ==
    (Served /\ clientGone = "beforeHeaders")
        => /\ ServedStatuses = {StatusClientClosed}
           /\ measureServe = << StatusClientClosed >>

\* C21: on a proxy that is not in debug mode, if the inbound context is
\* already cancelled when serveResponse starts, the status written to the
\* client and the one status recorded by MeasureServe are 499, whatever the
\* status of the response do produced; a debug proxy writes the debug
\* document and records nothing with MeasureServe.
C21_CancelledBeforeHeaders ==
    (Served /\ clientGone = "beforeHeaders")
        => IF params.Debug
           THEN /\ ServedStatuses = {DebugDocumentStatus}
                /\ measureServe = << >>
           ELSE /\ ServedStatuses = {StatusClientClosed}
                /\ storedStatus = StatusClientClosed
                /\ statusTag = StatusClientClosed
                /\ measureServe = << StatusClientClosed >>

C21_Witness ==
    /\ Served /\ clientGone = "beforeHeaders" /\ ~params.Debug
    /\ top.ctx.response.from = "backend"
    /\ top.ctx.response.status # StatusClientClosed
    /\ ServedStatuses = {StatusClientClosed}
    /\ measureServe = << StatusClientClosed >>

\* C22: if the inbound request is cancelled after the response headers were
\* written, while the body is streamed, the status stored for the request
\* is 499 and MeasureServe is recorded with 499.
C22_CancelledWhileStreaming ==
    (Served /\ clientGone = "whileStreaming" /\ ~params.Debug)
        => /\ storedStatus = StatusClientClosed
           /\ measureServe = << StatusClientClosed >>

----------------------------------------------------------------------------
\* The code and the dialingFailed flag C27 states for a round trip that
\* returned the error e while the context of the outbound request reports c.
ClaimedClass(e, c) ==
    CASE c = "Canceled" -> [code |-> 499, dialingFailed |-> FALSE]
      [] c = "DeadlineExceeded" -> [code |-> 504, dialingFailed |-> FALSE]
      [] c = "nil" /\ e = "dial" -> [code |-> 0 - 1, dialingFailed |-> TRUE]
      [] c = "nil" /\ e = "dialContext" -> [code |-> 504, dialingFailed |-> FALSE]
      [] c = "nil" /\ e = "netTimeout" -> [code |-> 504, dialingFailed |-> FALSE]
      [] c = "nil" /\ e = "net" -> [code |-> 503, dialingFailed |-> FALSE]
      [] OTHER -> [code |-> 0, dialingFailed |-> FALSE]

\* The attempts whose round trip returned an error.
FailedRoundTrips == {i \in 1 .. Len(attemptLog) : attemptLog[i].cause # NoCause}

\* C27: a round trip that fails is classified by the context of the
\* outbound request first (Canceled gives 499, DeadlineExceeded 504), then
\* an existing proxyError is passed through with its code and dialingFailed
\* flag, then a net.Error gives 504 on a timeout and 503 otherwise, and any
\* other error gives code 0, which is answered with 500; an attempt that
\* failed under a cancelled context carries no dialingFailed and is not
\* followed by a retry.
C27_RoundTripErrors ==
    \A i \in FailedRoundTrips :
        LET a == attemptLog[i]
            claimed == ClaimedClass(a.cause.err, a.cause.cerr)
        IN
        /\ a.roundTrip /\ a.rsp = NilResponse
        /\ a.perr.type = "proxyError" /\ ~a.perr.handled
        /\ a.perr.code = claimed.code
        /\ a.perr.dialingFailed = claimed.dialingFailed
        /\ a.cause.cerr = "Canceled" => i = Len(attemptLog)
        /\ (phase = "done" /\ i = Len(attemptLog) /\ ~params.Debug)
              => /\ top.err = a.perr
                 /\ \E j \in 1 .. Len(written) :
                       /\ written[j].by = "errorResponse"
                       /\ written[j].status =
                            (CASE claimed.code = 0 -> 500
                               [] claimed.code = 0 - 1 -> 502
                               [] OTHER -> claimed.code)

C27_Witness ==
    /\ phase = "done" /\ ~params.Debug
    /\ top.ctx.route.BackendType = "lb" /\ request.body = "NoBody"
    /\ Len(attemptLog) = 1
    /\ attemptLog[1].cause = [err |-> "dial", cerr |-> "Canceled"]
    /\ attemptLog[1].perr.code = 499
    /\ written[Len(written)].status = 499

----------------------------------------------------------------------------
\* A frame below the top is an invocation of do waiting in its loopback
\* branch for the inner do; it has run no response hook.
WaitingInLoopback ==
    \A j \in 1 .. Len(stack) - 1 :
        stack[j].pc = "loopback" /\ NoResponseHook(stack[j])

\* The step in which an inner do returns to the loopback branch of its
\* caller.
InnerReturns == Len(stack') < Len(stack)

\* C28: on a loopback route the inner do runs to completion before any
\* response hook of the outer route's filters; when the inner do returns no
\* error the outer invocation adopts the inner response and the inner proxy
\* span and then runs its response filters; when it returns an error the
\* outer invocation returns the same error and runs no response filter.
C28_LoopbackOrder ==
    /\ [](WaitingInLoopback
           /\ \A j \in 1 .. Len(stack) : stack[j].err # NilError => NoResponseHook(stack[j]))
    /\ [][InnerReturns =>
            LET inner == top
                after == stack'[Len(stack')]
            IN /\ inner.pc = "return"
               /\ Len(stack') = Len(stack) - 1
               /\ NoResponseHook(after)
               /\ IF inner.err # NilError
                  THEN after.pc = "return" /\ after.err = inner.err
                  ELSE /\ after.ctx.response = inner.ctx.response
                       /\ after.ctx.response # NilResponse
                       /\ after.ctx.proxySpan = inner.ctx.proxySpan
                       /\ after.err = NilError
                       /\ after.ri = 0
                       /\ after.pc = IF after.processed > 0 THEN "respFilters" ELSE "return"]_vars

C28_Witness ==
    /\ Len(stack) = 1 /\ hops = 1 /\ top.pc = "return" /\ top.err = NilError
    /\ top.ctx.route.BackendType = "loopback"
    /\ top.ctx.response.from = "backend"
    /\ top.ctx.proxySpan # 0
    /\ \E k \in 1 .. Len(top.hooks) : top.hooks[k].ph = "response"

----------------------------------------------------------------------------
\* shouldLog as a function (lines 1337-1356), applied by the deferred
\* access log of ServeHTTP (lines 1378-1407) to the status code of the
\* logging writer and to the filter in force.

MaxPrefixes == 2

\* Status codes around the borders of the ranges of the prefixes below.
StatusCodes == {100, 199, 200, 201, 299, 300, 404, 409, 410, 499, 500, 509, 510}

\* Prefixes of each of the three kinds of the switch of lines 1344-1351.
PrefixValues == {2, 4, 9, 10, 40, 50, 99, 100, 404}

AccessLogFilters ==
    [Enable : BOOLEAN,
     Prefixes : UNION {[1 .. n -> PrefixValues] : n \in 0 .. MaxPrefixes}]

prefixMatch_hundreds(status, prefix) ==
    status >= prefix * 100 /\ status < (prefix + 1) * 100

\* lines 1344-1351: the switch over one prefix.
prefixMatch(status, prefix) ==
    IF prefix < 10
    THEN status >= prefix * 100 /\ status < (prefix + 1) * 100
    ELSE IF prefix < 100
    THEN status >= prefix * 10 /\ status < (prefix + 1) * 10
    ELSE status = prefix

\* lines 1342-1355: the loop over the prefixes from index i on, with the
\* value of match so far; it is left at the first prefix that matches.
RECURSIVE matchLoop(_, _, _, _)
matchLoop(status, prefixes, i, match) ==
    IF i > Len(prefixes) THEN match
    ELSE LET m == prefixMatch(status, prefixes[i])
         IN IF m THEN m ELSE matchLoop(status, prefixes, i + 1, m)

\* lines 1337-1356.
shouldLog(status, filter) ==
    IF Len(filter.Prefixes) = 0
    THEN filter.Enable
    ELSE matchLoop(status, filter.Prefixes, 1, FALSE) = filter.Enable

InitShouldLog ==
    /\ statusCode \in StatusCodes
    /\ accessLogFilter \in AccessLogFilters
    /\ logged = << >>
    /\ PipelineIdle /\ PanicsIdle
    /\ HeadersIdle /\ DynamicIdle /\ TasksIdle /\ WorkersIdle /\ EvictionIdle

\* lines 1389-1391: the deferred function asks shouldLog once.
AccessLog ==
    /\ logged = << >>
    /\ logged' = << shouldLog(statusCode, accessLogFilter) >>
    /\ UNCHANGED <<statusCode, accessLogFilter, eviction, core, gates, resources, panics,
                   serving, headers, dynamic, concurrent>>

NextShouldLog == AccessLog

SpecShouldLog == InitShouldLog /\ [][NextShouldLog]_vars

\* The range of status codes C23 gives for one prefix.
ClaimedMatch(status, prefix) ==
    IF prefix < 10 THEN status \in (100 * prefix) .. (100 * prefix + 99)
    ELSE IF prefix < 100 THEN status \in (10 * prefix) .. (10 * prefix + 9)
    ELSE status = prefix

\* C23: shouldLog returns filter.Enable when the prefix list is empty;
\* otherwise it returns (matched = filter.Enable), where matched says that
\* some prefix p of the list matches the status: p < 10 matches the codes
\* 100p .. 100p+99, 10 <= p < 100 the codes 10p .. 10p+9, and p >= 100 only
\* the code p itself.
C23_ShouldLog ==
    logged # << >> =>
        LET matched == \E i \in 1 .. Len(accessLogFilter.Prefixes) :
                          ClaimedMatch(statusCode, accessLogFilter.Prefixes[i])
        IN logged = << IF Len(accessLogFilter.Prefixes) = 0
                       THEN accessLogFilter.Enable
                       ELSE matched = accessLogFilter.Enable >>

\* The second example of the claim: with prefixes [50] and Enable false a
\* 404 is logged; a 500 is not.
C23_Witness ==
    /\ accessLogFilter = [Enable |-> FALSE, Prefixes |-> << 50 >>]
    /\ \/ statusCode = 404 /\ logged = << TRUE >>
       \/ statusCode = 500 /\ logged = << FALSE >>
    /\ shouldLog(201, [Enable |-> TRUE, Prefixes |-> << 2 >>])
    /\ ~shouldLog(500, [Enable |-> TRUE, Prefixes |-> << 2 >>])

----------------------------------------------------------------------------
\* The headers of the outbound request (mapRequest, lines 494-510, with
\* copyHeader and copyHeaderExcluding, lines 376-390).  A header is a Go
\* map from keys to lists of values; a string is the sequence of its
\* characters, so that the canonical form of a key is computed.  The range
\* over a Go map yields the keys in an order that is not specified: the
\* copy takes them one at a time, in any order.

MaxHeaderKeys == 3

LowerCase == <<"a", "b", "c", "d", "e", "f", "g", "h", "i", "j", "k", "l", "m", "n", "o", "p", "q", "r", "s", "t", "u", "v", "w", "x", "y", "z">>
UpperCase == <<"A", "B", "C", "D", "E", "F", "G", "H", "I", "J", "K", "L", "M", "N", "O", "P", "Q", "R", "S", "T", "U", "V", "W", "X", "Y", "Z">>

toUpper(c) ==
    IF \E i \in 1 .. 26 : LowerCase[i] = c
    THEN UpperCase[CHOOSE i \in 1 .. 26 : LowerCase[i] = c] ELSE c

toLower(c) ==
    IF \E i \in 1 .. 26 : UpperCase[i] = c
    THEN LowerCase[CHOOSE i \in 1 .. 26 : UpperCase[i] = c] ELSE c

\* http.CanonicalHeaderKey for a key of letters, digits and hyphens: the
\* first letter and every letter after a hyphen in upper case, the rest in
\* lower case.
CanonicalHeaderKey(k) ==
    [i \in 1 .. Len(k) |->
        IF i = 1 \/ k[i - 1] = "-" THEN toUpper(k[i]) ELSE toLower(k[i])]

\* lines 271-281.
hopHeaders ==
    {<<"T", "e">>,
     <<"C", "o", "n", "n", "e", "c", "t", "i", "o", "n">>,
     <<"P", "r", "o", "x", "y", "-", "C", "o", "n", "n", "e", "c", "t", "i", "o", "n">>,
     <<"K", "e", "e", "p", "-", "A", "l", "i", "v", "e">>,
     <<"P", "r", "o", "x", "y", "-", "A", "u", "t", "h", "e", "n", "t", "i", "c", "a", "t", "e">>,
     <<"P", "r", "o", "x", "y", "-", "A", "u", "t", "h", "o", "r", "i", "z", "a", "t", "i", "o", "n">>,
     <<"T", "r", "a", "i", "l", "e", "r">>,
     <<"T", "r", "a", "n", "s", "f", "e", "r", "-", "E", "n", "c", "o", "d", "i", "n", "g">>,
     <<"U", "p", "g", "r", "a", "d", "e">>}

UserAgent == <<"U", "s", "e", "r", "-", "A", "g", "e", "n", "t">>
Authorization == <<"A", "u", "t", "h", "o", "r", "i", "z", "a", "t", "i", "o", "n">>

\* Keys the header map of the inbound request may hold: the server writes
\* canonical keys, a filter may write any key into the map.
InboundKeys ==
    {<<"x", "-", "f", "o", "o">>,
     <<"X", "-", "F", "o", "o">>,
     <<"t", "e">>,
     <<"T", "e">>,
     <<"c", "o", "n", "n", "e", "c", "t", "i", "o", "n">>,
     <<"A", "c", "c", "e", "p", "t">>,
     <<"U", "s", "e", "r", "-", "A", "g", "e", "n", "t">>}

\* m[k] = v of a Go map.
Put(m, k, v) == [x \in DOMAIN m \cup {k} |-> IF x = k THEN v ELSE m[x]]

\* lines 377-378: one turn of the range of copyHeader.
copyHeader(to, from, k) == Put(to, CanonicalHeaderKey(k), from[k])

\* lines 383-388: one turn of the range of copyHeaderExcluding.
copyHeaderExcluding(to, from, k, excludeHeaders) ==
    IF k \notin excludeHeaders THEN Put(to, CanonicalHeaderKey(k), from[k]) ELSE to

\* lines 499-502: the empty User-Agent of a request that has none.
defaultUserAgent(h) ==
    IF UserAgent \notin DOMAIN h THEN Put(h, UserAgent, << << >> >>) ELSE h

\* The value of the Authorization header of lines 506-510.
basicAuth == <<"B", "a", "s", "i", "c">>

\* lines 506-510: Header.Add of the basic authentication of the URL.
addAuthorization(h, user) ==
    IF user
    THEN Put(h, Authorization,
             (IF Authorization \in DOMAIN h THEN h[Authorization] ELSE << >>)
                \o << basicAuth >>)
    ELSE h

\* The inbound header holds, under each key, one value that names the key.
InitHeaders ==
    /\ \E ks \in SUBSET InboundKeys :
          /\ Cardinality(ks) <= MaxHeaderKeys
          /\ inbound = [k \in ks |-> << k >>]
          /\ ranged = ks
    /\ outbound = << >>
    /\ removeHopHeaders \in BOOLEAN
    /\ urlUser \in BOOLEAN
    /\ mapRequestDone = FALSE
    /\ PipelineIdle /\ PanicsIdle
    /\ AccessLogIdle /\ DynamicIdle /\ TasksIdle /\ WorkersIdle /\ EvictionIdle

\* lines 494-498: one turn of the range over the inbound header.
CloneHeaderStep ==
    /\ ~mapRequestDone
    /\ \E k \in ranged :
          /\ ranged' = ranged \ {k}
          /\ outbound' = IF removeHopHeaders
                          THEN copyHeaderExcluding(outbound, inbound, k, hopHeaders)
                          ELSE copyHeader(outbound, inbound, k)
    /\ UNCHANGED <<inbound, removeHopHeaders, urlUser, mapRequestDone,
                   eviction, core, gates, resources, panics, serving,
                   accesslog, dynamic, concurrent>>

\* lines 499-510: the rest of mapRequest's work on the header.
MapRequestReturns ==
    /\ ~mapRequestDone /\ ranged = {}
    /\ outbound' = addAuthorization(defaultUserAgent(outbound), urlUser)
    /\ mapRequestDone' = TRUE
    /\ UNCHANGED <<inbound, ranged, removeHopHeaders, urlUser,
                   eviction, core, gates, resources, panics, serving,
                   accesslog, dynamic, concurrent>>

NextHeaders == CloneHeaderStep \/ MapRequestReturns

SpecHeaders == InitHeaders /\ [][NextHeaders]_vars

Range(f) == {f[x] : x \in DOMAIN f}

\* C24: when the inbound header holds values under two keys with the same
\* canonical form, the outbound request carries the one canonical key with
\* the values of both inbound keys; no inbound value is lost.
C24_BothValuesKept ==
    (mapRequestDone /\ ~removeHopHeaders)
        => /\ \A k \in DOMAIN outbound : CanonicalHeaderKey(k) = k
           /\ \A k \in DOMAIN inbound :
                 /\ CanonicalHeaderKey(k) \in DOMAIN outbound
                 /\ Range(inbound[k]) \subseteq Range(outbound[CanonicalHeaderKey(k)])

\* C25: with the removal of hop headers enabled the outbound header holds
\* none of the hop headers, whatever the letter case of the inbound keys,
\* and every other inbound header is copied.
C25_HopHeadersRemoved ==
    (mapRequestDone /\ removeHopHeaders)
        => /\ DOMAIN outbound \cap hopHeaders = {}
           /\ \A k \in DOMAIN inbound :
                 CanonicalHeaderKey(k) \notin hopHeaders
                    => CanonicalHeaderKey(k) \in DOMAIN outbound

----------------------------------------------------------------------------
\* The scheme and the host of the outbound request of a dynamic route
\* (mapRequest, lines 476-479, with setRequestURLFromRequest and
\* setRequestURLForDynamicBackend, lines 422-457).  Strings are sequences
\* of characters, so that url.ParseRequestURI is computed on them.

\* The index of the first character of s, from index i on, that is in the
\* set cs; Len(s) + 1 when there is none.
RECURSIVE IndexAny(_, _, _)
IndexAny(s, cs, i) ==
    IF i > Len(s) THEN Len(s) + 1
    ELSE IF s[i] \in cs THEN i ELSE IndexAny(s, cs, i + 1)

Letters == {LowerCase[i] : i \in 1 .. 26} \cup {UpperCase[i] : i \in 1 .. 26}

\* The end of the scheme of a raw URL: the index of the colon that follows
\* a run of letters at the start, 0 when the URL has no scheme.
schemeEnd(rawURL) ==
    LET i == IndexAny(rawURL, {c \in {rawURL[j] : j \in 1 .. Len(rawURL)} : c \notin Letters}, 1)
    IN IF i > 1 /\ i <= Len(rawURL) /\ rawURL[i] = ":" THEN i ELSE 0

\* url.ParseRequestURI for a raw URL of letters, dots, colons and slashes:
\* an absolute URI or an absolute path.  The scheme is lowered; an authority
\* is read only after a scheme; a path alone has neither scheme nor host;
\* anything else without a scheme is an error.
ParseRequestURI(rawURL) ==
    LET e == schemeEnd(rawURL)
        scheme == [i \in 1 .. (IF e = 0 THEN 0 ELSE e - 1) |-> toLower(rawURL[i])]
        rest == SubSeq(rawURL, e + 1, Len(rawURL))
        slash == Len(rest) >= 1 /\ rest[1] = "/"
        authority == e # 0 /\ Len(rest) >= 2 /\ rest[1] = "/" /\ rest[2] = "/"
    IN IF rawURL = << >> \/ (e = 0 /\ ~slash)
       THEN [ok |-> FALSE, Scheme |-> << >>, Host |-> << >>]
       ELSE [ok |-> TRUE, Scheme |-> scheme,
             Host |-> IF authority
                      THEN SubSeq(rest, 3, IndexAny(rest, {"/"}, 3) - 1)
                      ELSE << >>]

http == <<"h", "t", "t", "p">>
https == <<"h", "t", "t", "p", "s">>

\* lines 422-427.
schemeFromRequest(tls) == IF tls THEN https ELSE http

\* lines 429-436.
setRequestURLFromRequest(u, host, tls) ==
    [Host |-> IF u.Host = << >> THEN host ELSE u.Host,
     Scheme |-> IF u.Scheme = << >> THEN schemeFromRequest(tls) ELSE u.Scheme]

\* A value of the state bag under one key: absent, a value that is no
\* string, or a string.
Absent == [kind |-> "absent", s |-> << >>]
NoString == [kind |-> "int", s |-> << >>]
String(s) == [kind |-> "string", s |-> s]

\* v, ok := bag[key].(string); ok && v != "".
NonEmptyString(v) == v.kind = "string" /\ v.s # << >>

setRequestURLForDynamicBackend_hostFirst(u, bag) ==
    LET bu == ParseRequestURI(bag.url.s)
        w == IF NonEmptyString(bag.url) /\ bu.ok
             THEN [Host |-> bu.Host, Scheme |-> bu.Scheme] ELSE u
    IN [Host |-> IF NonEmptyString(bag.host) THEN bag.host.s ELSE w.Host,
        Scheme |-> IF NonEmptyString(bag.scheme) THEN bag.scheme.s ELSE w.Scheme]

\* lines 438-457.
setRequestURLForDynamicBackend(u, bag) ==
    IF NonEmptyString(bag.url)
    THEN LET bu == ParseRequestURI(bag.url.s)
         IN IF bu.ok THEN [Host |-> bu.Host, Scheme |-> bu.Scheme] ELSE u
    ELSE [Host |-> IF NonEmptyString(bag.host) THEN bag.host.s ELSE u.Host,
          Scheme |-> IF NonEmptyString(bag.scheme) THEN bag.scheme.s ELSE u.Scheme]

\* Raw URLs a filter may store under DynamicBackendURLKey: absolute URIs
\* with and without a path, a scheme in upper case, an opaque URI, a path
\* alone, and a host alone, which is no request URI.
BackendURLs ==
    {<<"h", "t", "t", "p", ":", "/", "/", "b", ".", "x">>,
     <<"h", "t", "t", "p", ":", "/", "/", "b", ".", "x", "/", "p">>,
     <<"H", "T", "T", "P", "S", ":", "/", "/", "b", ".", "x">>,
     <<"m", "a", "i", "l", "t", "o", ":", "b">>,
     <<"/", "p">>,
     <<"b", ".", "x">>}

InboundHosts == {<< >>, <<"u", ".", "x">>}

InitDynamicBackend ==
    /\ requestURL \in [Scheme : {<< >>, http, https}, Host : InboundHosts]
    /\ requestHost \in {<< >>, <<"i", "n", ".", "x">>}
    /\ requestTLS \in BOOLEAN
    /\ dynamicBag \in
          [url : {Absent, NoString, String(<< >>)} \cup {String(x) : x \in BackendURLs},
           host : {Absent, NoString, String(<< >>), String(<<"h", ".", "x">>)},
           scheme : {Absent, NoString, String(<< >>), String(https)}]
    /\ urlResolved = << >>
    /\ PipelineIdle /\ PanicsIdle
    /\ AccessLogIdle /\ HeadersIdle /\ TasksIdle /\ WorkersIdle /\ EvictionIdle

\* lines 476-479: the case of the dynamic backend; u is r.URL of the inbound
\* request and is changed in place.  urlResolved keeps what it was.
MapRequestDynamic ==
    /\ urlResolved = << >>
    /\ urlResolved' = << requestURL >>
    /\ requestURL' = setRequestURLForDynamicBackend(
                         setRequestURLFromRequest(requestURL, requestHost, requestTLS),
                         dynamicBag)
    /\ UNCHANGED <<requestHost, requestTLS, dynamicBag,
                   eviction, core, gates, resources, panics, serving,
                   accesslog, headers, concurrent>>

NextDynamicBackend == MapRequestDynamic

SpecDynamicBackend == InitDynamicBackend /\ [][NextDynamicBackend]_vars

\* The scheme and the host the outbound request starts from: those of the
\* URL of the inbound request, and where that has none, the Host of the
\* request and the scheme of its connection.
FromInbound(u) ==
    [Host |-> IF u.Host # << >> THEN u.Host ELSE requestHost,
     Scheme |-> IF u.Scheme # << >> THEN u.Scheme
                ELSE IF requestTLS THEN https ELSE http]

\* C26: on a dynamic route the outbound scheme and host start from the
\* inbound request; a non-empty string under the URL key overrides both
\* with its scheme and its host (a string that is no request URI has
\* neither and overrides nothing) and the host and scheme keys are ignored;
\* without it a non-empty string under the host key replaces the host and
\* one under the scheme key replaces the scheme, each on its own.
C26_DynamicBackend ==
    urlResolved # << >> =>
        LET start == FromInbound(urlResolved[1])
            bu == ParseRequestURI(dynamicBag.url.s)
        IN IF dynamicBag.url.kind = "string" /\ dynamicBag.url.s # << >>
           THEN requestURL = IF bu.ok THEN [Host |-> bu.Host, Scheme |-> bu.Scheme]
                             ELSE start
           ELSE /\ requestURL.Host =
                     IF dynamicBag.host.kind = "string" /\ dynamicBag.host.s # << >>
                     THEN dynamicBag.host.s ELSE start.Host
                /\ requestURL.Scheme =
                     IF dynamicBag.scheme.kind = "string" /\ dynamicBag.scheme.s # << >>
                     THEN dynamicBag.scheme.s ELSE start.Scheme

C26_Witness ==
    /\ urlResolved # << >>
    /\ dynamicBag.url = String(<<"h", "t", "t", "p", ":", "/", "/", "b", ".", "x", "/", "p">>)
    /\ dynamicBag.host = String(<<"h", ".", "x">>)
    /\ dynamicBag.scheme = String(https)
    /\ requestURL = [Host |-> <<"b", ".", "x">>, Scheme |-> http]
    /\ urlResolved[1] = [Host |-> << >>, Scheme |-> << >>]

----------------------------------------------------------------------------
\* tryCatch under concurrent requests (lines 718-738).  Every request is
\* served by its own goroutine and caughtPanic is a package-level variable
\* read and written without synchronisation: the test of line 727, the
\* capture of lines 728-730 and the assignment of line 731 are separate
\* steps of a task, and a task that has not written the flag itself may
\* still read the value it had before another task's write.

MaxTasks == 2
MaxPanics == 2

Tasks == 1 .. MaxTasks

InitTryCatch ==
    /\ tasks = [t \in Tasks |-> [pc |-> "filter", saw |-> FALSE, s |-> FALSE,
                                  wrote |-> FALSE, panics |-> 0]]
    /\ PanicsIdle
    /\ PipelineIdle
    /\ AccessLogIdle /\ HeadersIdle /\ DynamicIdle /\ WorkersIdle /\ EvictionIdle

\* What is left unchanged by a step of a task in tryCatch.
others == <<eviction, core, gates, resources, serving, accesslog, headers, dynamic,
          workers, inflightRequests>>

\* line 737 and line 725: the filter hook of task t panics and recover
\* returns the panic value.
TaskPanics(t) ==
    /\ tasks[t].pc = "filter" /\ tasks[t].panics < MaxPanics
    /\ tasks' = [tasks EXCEPT ![t].pc = "recovered", ![t].s = FALSE,
                               ![t].panics = tasks[t].panics + 1]
    /\ panicCount' = panicCount + 1
    /\ UNCHANGED <<caughtPanic, errorLog, others>>

\* The values a read of caughtPanic by task t may return.
readCaughtPanic(t) ==
    IF tasks[t].wrote THEN {caughtPanic} ELSE {caughtPanic, FALSE}

\* line 727: the read of the flag.
TaskReads(t) ==
    /\ tasks[t].pc = "recovered"
    /\ \E v \in readCaughtPanic(t) :
          tasks' = [tasks EXCEPT ![t].saw = v,
                                 ![t].pc = IF v THEN "report" ELSE "capture"]
    /\ UNCHANGED <<caughtPanic, errorLog, panicCount, others>>

\* lines 728-730: the stack is captured.
TaskCaptures(t) ==
    /\ tasks[t].pc = "capture"
    /\ tasks' = [tasks EXCEPT ![t].s = TRUE, ![t].pc = "set"]
    /\ UNCHANGED <<caughtPanic, errorLog, panicCount, others>>

\* line 731: the write of the flag.
TaskSets(t) ==
    /\ tasks[t].pc = "set"
    /\ caughtPanic' = TRUE
    /\ tasks' = [tasks EXCEPT ![t].wrote = TRUE, ![t].pc = "report"]
    /\ UNCHANGED <<errorLog, panicCount, others>>

\* line 733: onErr is handed the panic value and the stack string.
TaskReports(t) ==
    /\ tasks[t].pc = "report"
    /\ errorLog' = Append(errorLog, [task |-> t, stack |-> tasks[t].s])
    /\ tasks' = [tasks EXCEPT ![t].pc = "filter"]
    /\ UNCHANGED <<caughtPanic, panicCount, others>>

NextTryCatch ==
    \E t \in Tasks :
        \/ TaskPanics(t) \/ TaskReads(t) \/ TaskCaptures(t)
        \/ TaskSets(t) \/ TaskReports(t)

SpecTryCatch == InitTryCatch /\ [][NextTryCatch]_vars

\* C29: across all concurrent requests of the process at most one filter
\* panic is reported with a stack trace; once a panic captured a stack,
\* every later panic is reported with the empty stack string.
C29_OneStackTrace ==
    Cardinality({i \in 1 .. Len(errorLog) : errorLog[i].stack}) <= 1

----------------------------------------------------------------------------
\* The inflight counter of the endpoints of a load-balanced route under
\* concurrent requests (makeBackendRequest, lines 872-885 and its return;
\* setRequestURLForLoadBalancedBackend, lines 459-464).  A worker is the
\* goroutine of one request in its calls of makeBackendRequest: the first
\* attempt and the retry.  The counter of an endpoint is updated
\* atomically.

MaxWorkers == 2

Workers == 1 .. MaxWorkers

\* The endpoints the load balancer may select.
Endpoints == {"a", "b"}

\* endpoint == nil: the route is not load balanced.
NilEndpoint == "nil"

\* How a call that got past the gate returns: the upgrade was served or
\* failed (lines 887-894), no round tripper (896-899), the round trip
\* failed (925-965) or answered (966-967).
Outcomes == {"upgrade", "roundtripper", "error", "response"}

InitInflight ==
    /\ workers = [w \in Workers |-> [pc |-> "do", endpoint |-> NilEndpoint,
                                      attempts |-> 0, held |-> FALSE,
                                      gated |-> 0, incs |-> 0, decs |-> 0]]
    /\ inflightRequests = [e \in Endpoints |-> 0]
    /\ PipelineIdle /\ PanicsIdle
    /\ AccessLogIdle /\ HeadersIdle /\ DynamicIdle /\ TasksIdle /\ EvictionIdle

\* What is left unchanged by a step of a worker.
outside == <<eviction, core, gates, resources, panics, serving, accesslog, headers,
             dynamic, tasks>>

\* lines 1122 and 1141: do calls makeBackendRequest, at most twice.
\* line 873: mapRequest selects the endpoint of a load-balanced route and
\* returns it also with its error.
MapRequest(w) ==
    /\ workers[w].pc = "do" /\ workers[w].attempts < 2
    /\ \E e \in Endpoints \cup {NilEndpoint}, ok \in BOOLEAN :
          workers' = [workers EXCEPT ![w].attempts = workers[w].attempts + 1,
                                     ![w].endpoint = e,
                                     ![w].pc = IF ok THEN "gate" ELSE "do"]
    /\ UNCHANGED <<inflightRequests, outside>>

\* lines 878-880: the backend rate limiter rejects the call or lets it pass.
RejectBackend(w) ==
    /\ workers[w].pc = "gate"
    /\ \E rejected \in BOOLEAN :
          workers' = [workers EXCEPT
                        ![w].pc = IF rejected THEN "do" ELSE "count",
                        ![w].gated = workers[w].gated +
                            (IF ~rejected /\ workers[w].endpoint # NilEndpoint THEN 1 ELSE 0)]
    /\ UNCHANGED <<inflightRequests, outside>>

\* Metrics.IncInflightRequest and Metrics.DecInflightRequest.
IncInflightRequest(counters, e) == [counters EXCEPT ![e] = counters[e] + 1]
DecInflightRequest(counters, e) == [counters EXCEPT ![e] = counters[e] - 1]

\* lines 882-885: the increment, with the decrement deferred.
CountInflight(w) ==
    /\ workers[w].pc = "count"
    /\ IF workers[w].endpoint # NilEndpoint
       THEN /\ inflightRequests' = IncInflightRequest(inflightRequests, workers[w].endpoint)
            /\ workers' = [workers EXCEPT ![w].pc = "attempt", ![w].held = TRUE,
                                           ![w].incs = workers[w].incs + 1]
       ELSE /\ inflightRequests' = inflightRequests
            /\ workers' = [workers EXCEPT ![w].pc = "attempt"]
    /\ UNCHANGED outside

deferredDec_onResponse(held, outcome) == held /\ outcome = "response"

\* line 884: the deferred decrement runs at every return after line 884.
deferredDec(held, outcome) == held

\* lines 887-967: the rest of the call, and its return.
AttemptReturns(w) ==
    /\ workers[w].pc = "attempt"
    /\ \E outcome \in Outcomes :
          IF deferredDec(workers[w].held, outcome)
          THEN /\ inflightRequests' = DecInflightRequest(inflightRequests, workers[w].endpoint)
               /\ workers' = [workers EXCEPT ![w].pc = "do", ![w].held = FALSE,
                                              ![w].decs = workers[w].decs + 1]
          ELSE /\ inflightRequests' = inflightRequests
               /\ workers' = [workers EXCEPT ![w].pc = "do", ![w].held = FALSE]
    /\ UNCHANGED outside

NextInflight ==
    \E w \in Workers :
        \/ MapRequest(w) \/ RejectBackend(w) \/ CountInflight(w) \/ AttemptReturns(w)

SpecInflight == InitInflight /\ [][NextInflight]_vars

\* The workers whose attempt on endpoint e is between the gate's increment
\* and its return.
InFlightOn(e) == {w \in Workers : workers[w].pc = "attempt" /\ workers[w].endpoint = e}

\* C30: on a load-balanced route the counter of the selected endpoint is
\* incremented once before and decremented once after every attempt that
\* gets past the backend rate-limit gate, whatever the attempt's outcome,
\* and is untouched when the mapping fails or the limiter rejects; so the
\* counter of an endpoint is never negative and equals the number of
\* attempts in flight on it, under every interleaving.
C30_InflightCounter ==
    /\ \A e \in Endpoints :
          /\ inflightRequests[e] >= 0
          /\ inflightRequests[e] = Cardinality(InFlightOn(e))
    /\ \A w \in Workers :
          LET k == workers[w] IN
          /\ k.incs = k.gated - (IF k.pc = "count" /\ k.endpoint # NilEndpoint THEN 1 ELSE 0)
          /\ k.decs = k.incs - (IF k.pc = "attempt" /\ k.endpoint # NilEndpoint THEN 1 ELSE 0)
          /\ k.gated <= k.attempts

C30_Witness ==
    /\ inflightRequests["a"] = 2
    /\ \A w \in {1, 2} : workers[w].pc = "attempt" /\ workers[w].endpoint = "a"
    /\ workers[1].attempts = 2 /\ workers[1].decs = 1
    /\ workers[2].attempts = 2 /\ workers[2].gated = 1

----------------------------------------------------------------------------
\* The goroutine that closes the idle connections (WithParams, lines
\* 608-610 and 643-658) and Close (lines 1450-1453).  Time is counted in
\* seconds; the timer of time.After fires when the period has passed since
\* the goroutine armed it, and a closed quit channel is always ready.

MaxEvictions == 2

DefaultCloseIdleConnsPeriod == 20

\* Values of Params.CloseIdleConnsPeriod: the -1 of New (line 598), the
\* zero value, and positive periods.
Periods == {0 - 1, 0, 1, 2, 3}

effectivePeriod_zeroKept(period) == period

\* lines 608-610.
effectivePeriod(period) ==
    IF period = 0 THEN DefaultCloseIdleConnsPeriod ELSE period

\* line 647.
evictorStarted(period) == period > 0

InitEviction ==
    /\ configuredPeriod \in Periods
    /\ closeIdleConnsPeriod = configuredPeriod
    /\ evictor = "unborn"
    /\ sinceArmed = 0
    /\ quitClosed = FALSE
    /\ evictions = 0
    /\ PipelineIdle /\ PanicsIdle
    /\ AccessLogIdle /\ HeadersIdle /\ DynamicIdle /\ TasksIdle /\ WorkersIdle

\* What is left unchanged by the steps of the proxy's lifetime.
pipeline == <<core, gates, resources, panics, serving, accesslog, headers,
              dynamic, concurrent>>

\* lines 603-712: the period is resolved, the quit channel is made and the
\* goroutine is started, which arms its first timer.
WithParams ==
    /\ evictor = "unborn"
    /\ closeIdleConnsPeriod' = effectivePeriod(configuredPeriod)
    /\ evictor' = IF evictorStarted(closeIdleConnsPeriod') THEN "select" ELSE "none"
    /\ UNCHANGED <<configuredPeriod, sinceArmed, quitClosed, evictions, pipeline>>

\* A second passes while the goroutine waits in its select.
Tick ==
    /\ evictor = "select" /\ sinceArmed < closeIdleConnsPeriod
    /\ sinceArmed' = sinceArmed + 1
    /\ UNCHANGED <<configuredPeriod, closeIdleConnsPeriod, evictor, quitClosed,
                   evictions, pipeline>>

\* lines 651-652: the timer fired; the idle connections are closed and the
\* loop arms the next timer.
TimerFires ==
    /\ evictor = "select" /\ sinceArmed = closeIdleConnsPeriod
    /\ evictions < MaxEvictions
    /\ evictions' = evictions + 1
    /\ sinceArmed' = 0
    /\ UNCHANGED <<configuredPeriod, closeIdleConnsPeriod, evictor, quitClosed,
                   pipeline>>

\* lines 653-654: the select takes the case of the closed quit channel.
TaskQuits ==
    /\ evictor = "select" /\ quitClosed
    /\ evictor' = "exited"
    /\ UNCHANGED <<configuredPeriod, closeIdleConnsPeriod, sinceArmed, quitClosed,
                   evictions, pipeline>>

\* lines 1450-1453: Close, called once on a proxy.
Close ==
    /\ evictor # "unborn" /\ ~quitClosed
    /\ quitClosed' = TRUE
    /\ UNCHANGED <<configuredPeriod, closeIdleConnsPeriod, evictor, sinceArmed,
                   evictions, pipeline>>

NextEviction == WithParams \/ Tick \/ TimerFires \/ TaskQuits \/ Close

\* A select with a ready case does not block, and it takes each of its
\* ready cases with the same probability: the case of the closed quit
\* channel, ready from Close on, is taken at last.
SpecEviction == InitEviction /\ [][NextEviction]_vars /\ WF_vars(TaskQuits)

\* The period C31 gives for a configured one: a configured 0 is the default
\* of 20 seconds.
ClaimedPeriod == IF configuredPeriod = 0 THEN 20 ELSE configuredPeriod

\* C31: WithParams starts the eviction task if and only if the effective
\* period is above 0 (a configured 0 is the default period, a negative one
\* starts no task); the running task closes the idle connections once each
\* time a period has passed; after Close closed the quit channel the task
\* exits at last, and after its exit it closes nothing.
C31_EvictionTask ==
    /\ [](evictor # "unborn" =>
            (/\ closeIdleConnsPeriod = ClaimedPeriod
             /\ ((evictor # "none") <=> (ClaimedPeriod > 0))
             /\ (evictor = "exited" => quitClosed)))
    /\ [][(/\ (evictions' # evictions =>
                 (/\ evictions' = evictions + 1
                  /\ evictor = "select"
                  /\ sinceArmed = ClaimedPeriod
                  /\ sinceArmed' = 0))
            /\ (evictor = "exited" => (evictor' = "exited" /\ evictions' = evictions)))]_vars
    /\ (quitClosed ~> (evictor \in {"exited", "none"}))

C31_Witness ==
    /\ configuredPeriod = 0 /\ closeIdleConnsPeriod = 20
    /\ evictor = "exited" /\ quitClosed
    /\ evictions = 1 /\ sinceArmed > 0

----------------------------------------------------------------------------
\* The response of a frame of do that went on without an error.

\* The frames of do that are past the branches of lines 1082-1166 without an
\* error: in the response filters, or returned nil.
PastBranches == {j \in 1 .. Len(stack) :
                   \/ stack[j].pc = "respFilters"
                   \/ stack[j].pc \in {"return", "returned"} /\ stack[j].err = NilError}

\* C32: whenever do returns without an error the response of its context is
\* set, on every branch, so that addBranding and the response filters in do,
\* and serveResponse after it, have a response to work on.
C32_ResponseSet ==
    /\ \A j \in PastBranches : stack[j].ctx.response # NilResponse
    /\ (phase \in {"respond", "done"} /\ top.err = NilError) =>
          top.ctx.response # NilResponse

\* The outer do adopted, from a loopback, the synthetic response of the
\* backend rate limit, and its response was served.
C32_Witness ==
    /\ Served /\ hops > 0
    /\ top.ctx.response.from = "ratelimit"
    /\ \E i \in 1 .. Len(written) : written[i].by = "serveResponse"

\* C33 as stated: under a circuit breaker that allowed the request, a
\* request that a successful protocol upgrade completed, its one backend
\* attempt returning the handled sentinel, is not reported to the breaker as
\* a failure and is not counted in errors.backend.
C33_UpgradeNotFailure ==
    (/\ phase = "done" /\ hops = 0
     /\ params.CircuitBreakers /\ top.done
     /\ Len(attemptLog) = 1
     /\ attemptLog[1].perr.handled
     /\ top.ctx.successfulUpgrade) =>
        (/\ \A i \in 1 .. Len(breakerLog) : breakerLog[i]
         /\ errorsBackend = 0)

====
